---- MODULE Spec2Model ----
(***************************************************************************)
(* Gamepad input pipeline of game-wiki-overlay (Electron main process):    *)
(*   GamepadInput            src/main/gamepadModule/gamepadInput.js        *)
(*   GamepadActionDispatcher src/unnamed/part_001                          *)
(*   ButtonRepeatHandler     src/main/gamepad-module/gamepad-config.js     *)
(*   pollGamepad, setBackgroundMode, the window and navigation handlers    *)
(*                           src/main/gamepad-module/gamepad.js            *)
(*   hide/show/blur/focus wiring (main.js)                                 *)
(*                           src/main/gamepadModule/gamepadInput.js        *)
(*                                                                         *)
(* A button mask is the set of its one-bit BUTTONS values, so that         *)
(* (mask & button) !== 0 is  button \in mask.  Timers are not clocked: a   *)
(* live timer may fire at any step.  The BrowserWindow is the external     *)
(* collaborator: its visibility changes with hide()/show(), and it emits   *)
(* 'hide'/'show' to the listeners of main.js within the same call.         *)
(***************************************************************************)
EXTENDS Integers, Sequences, FiniteSets, TLC

VARIABLES
  lastButtons,     \* GamepadInput.lastButtons
  backgroundMode,  \* gamepad.js module state backgroundMode
  winVisible,      \* the main window exists, is not destroyed and isVisible()
  hidePending,     \* the 50 ms setTimeout of toggleVisibility is pending
  repeatTimers,    \* ButtonRepeatHandler.repeatTimers: key -> timer handle
  timers,          \* the live timers created by ButtonRepeatHandler
  emitted,         \* what the last step sent to the handlers / the renderer
  tick,            \* what the last step was, and the gating it started under
  shown,           \* the buttons of the most recently produced frame
  poller,          \* gamepad.js module state: gamepadInput, the handlers,
                   \* pollInterval; the live polling timers; what the last
                   \* startPolling() returned
  dz,              \* applyDeadzone samples: <<v, w, applyDeadzone(v), applyDeadzone(w)>>;
                   \* after a frame, v and w are its sThumbRX and sThumbRY
  cursor,          \* GamepadCursor: x, y, visible, hideTimeout,
                   \* elementRefreshInterval, currentHighlightedElement,
                   \* currentHighlightedLocal
  detector,        \* ElementDetector: allClickableElements, highlightStyleInjected
  queries,         \* the embedded queries of refresh in flight, oldest first
  rtimers,         \* the live timers of the renderer
  osk,             \* OSKManager: visible, selectedIndex, currentLayout,
                   \* inputValue, targetInput, and the time since lastAnalogNav
  page,            \* the host document: the view shown, the window's inner
                   \* size, the nodes, the fields' values, the marked nodes
  nav,             \* NavigationManager: history, currentIndex, isNavigating,
                   \* navigationTimeout
  sent,            \* what the last step of the renderer did to its surroundings
  pull,            \* what the last move added to the position
  step,            \* what the last step of the renderer was
  web              \* the page of the embedded surface: the elements it shows,
                   \* window.__gamepadClickables, the elements that carry
                   \* 'gamepad-selected', the elements the last step clicked

mainVars == <<lastButtons, backgroundMode, winVisible, hidePending, repeatTimers,
              timers, emitted, tick, shown, poller, dz>>

rendererVars == <<cursor, detector, queries, rtimers, osk, page, nav, sent, pull, step,
                  web>>

vars == <<mainVars, rendererVars>>

----------------------------------------------------------------------------
(* Configuration: gamepad-config.js *)

BUTTONS ==
  [DPAD_UP |-> 1, DPAD_DOWN |-> 2, DPAD_LEFT |-> 4, DPAD_RIGHT |-> 8,
   START |-> 16, BACK |-> 32, LEFT_THUMB |-> 64, RIGHT_THUMB |-> 128,
   LEFT_SHOULDER |-> 256, RIGHT_SHOULDER |-> 512,
   A |-> 4096, B |-> 8192, X |-> 16384, Y |-> 32768]

ANALOG_CONFIG == [DEADZONE |-> 8000, STICK_MAX |-> 32767, CURSOR_SPEED |-> 25]

\* the buttons the dispatcher reads (the thumb buttons are never read)
ReadButtons ==
  {BUTTONS.DPAD_UP, BUTTONS.DPAD_DOWN, BUTTONS.DPAD_LEFT, BUTTONS.DPAD_RIGHT,
   BUTTONS.START, BUTTONS.BACK, BUTTONS.LEFT_SHOULDER, BUTTONS.RIGHT_SHOULDER,
   BUTTONS.A, BUTTONS.B, BUTTONS.X, BUTTONS.Y}

DpadButtons ==
  {BUTTONS.DPAD_UP, BUTTONS.DPAD_DOWN, BUTTONS.DPAD_LEFT, BUTTONS.DPAD_RIGHT}

\* the d-pad buttons in the order dispatchDpad tests them
DpadOrder ==
  << [button |-> BUTTONS.DPAD_UP,    direction |-> "up"],
     [button |-> BUTTONS.DPAD_DOWN,  direction |-> "down"],
     [button |-> BUTTONS.DPAD_LEFT,  direction |-> "left"],
     [button |-> BUTTONS.DPAD_RIGHT, direction |-> "right"] >>

----------------------------------------------------------------------------
(* Bounds of the model: the inputs a step draws from *)

\* at most this many of the action buttons (A, B, X, Y, LB, RB, Start, Back)
\* are held in one frame of the button specification
MaxHeld == 3

\* at most this many d-pad buttons are held in one frame of the pipeline
MaxDpadHeld == 2

\* applyDeadzone is sampled this far around 0, the two thresholds and the
\* two ends of the int16 range
DzSpan == 3

ActionButtons == ReadButtons \ DpadButtons

ButtonFrames == {S \in SUBSET ActionButtons : Cardinality(S) <= MaxHeld}

\* what a pipeline frame holds besides the d-pad
ExtraFrames ==
  { {}, {BUTTONS.A}, {BUTTONS.BACK, BUTTONS.START} }

DpadFrames ==
  {d \cup e : d \in {S \in SUBSET DpadButtons : Cardinality(S) <= MaxDpadHeld},
              e \in ExtraFrames}

\* raw int16 stick samples <<sThumbLX, sThumbLY, sThumbRX, sThumbRY>>
NeutralSticks == <<0, 0, 0, 0>>

StickSamples ==
  { NeutralSticks,
    <<9000, -8050, 8200, -20000>>,    \* beyond the deadzone: cursor and scroll
    <<0, 0, 8200, 8500>> }            \* right stick beyond the analog threshold,
                                      \* its scroll below 0.5

\* raw int16 axis samples for applyDeadzone
AxisSamples ==
  LET D   == ANALOG_CONFIG.DEADZONE
      max == ANALOG_CONFIG.STICK_MAX
  IN  ((0 - DzSpan)..DzSpan)
      \cup ((D - DzSpan)..(D + DzSpan))
      \cup ((0 - D - DzSpan)..(DzSpan - D))
      \cup ((max - DzSpan)..max)
      \cup ((0 - max - 1)..(DzSpan - max - 1))

----------------------------------------------------------------------------
(* Events: one record shape for everything a step hands on *)

Ev(ch, arg, x, y) == [ch |-> ch, arg |-> arg, x |-> x, y |-> y]

WindowCall(name) == Ev("window", name, 0, 0)

\* sendGamepadAction: webContents.send('gamepad-action', action)
sendGamepadAction(action) == Ev("gamepad-action", action, 0, 0)

Abs(n) == IF n < 0 THEN -n ELSE n

----------------------------------------------------------------------------
(* GamepadInput: gamepadInput.js *)

\* applyDeadzone without the rescaling beyond the threshold
applyDeadzone_NoRescale(value) ==
  IF Abs(value) < ANALOG_CONFIG.DEADZONE THEN 0 ELSE value

\* applyDeadzone(value)
applyDeadzone(value) ==
  LET deadzone == ANALOG_CONFIG.DEADZONE
  IN IF Abs(value) < deadzone
       THEN 0
       ELSE IF value > 0 THEN value - deadzone ELSE value + deadzone

\* poll(), when XInputGetState succeeded with wButtons and the four thumb
\* values: the lastButtons it stores and the frame it returns
poll(wButtons, sThumb, last) ==
  [lastButtons |-> wButtons,
   state |-> [buttons         |-> wButtons,
              previousButtons |-> last,
              leftStickX      |-> applyDeadzone(sThumb[1]),
              leftStickY      |-> applyDeadzone(sThumb[2]),
              rightStickX     |-> applyDeadzone(sThumb[3]),
              rightStickY     |-> applyDeadzone(sThumb[4])]]

----------------------------------------------------------------------------
(* GamepadActionDispatcher: part_001 *)

isPressed(buttons, button) == button \in buttons

\* isJustPressed that forgets the previous frame
isJustPressed_Level(currentButtons, previousButtons, button) ==
  isPressed(currentButtons, button)

isJustPressed(currentButtons, previousButtons, button) ==
  isPressed(currentButtons, button) /\ ~isPressed(previousButtons, button)

isCombo(buttons, button1, button2) ==
  isPressed(buttons, button1) /\ isPressed(buttons, button2)

\* isComboJustPressed that forgets the previous frame
isComboJustPressed_Level(currentButtons, previousButtons, button1, button2) ==
  isCombo(currentButtons, button1, button2)

isComboJustPressed(currentButtons, previousButtons, button1, button2) ==
  LET currentCombo  == isCombo(currentButtons, button1, button2)
      previousCombo == isCombo(previousButtons, button1, button2)
  IN currentCombo /\ ~previousCombo

\* navigationActionHandler (gamepad.js): handler -> the action it sends
navigationActionHandler ==
  [handleClick        |-> "click",
   handleBack         |-> "back",
   handleHome         |-> "home",
   handleOpenKeyboard |-> "search",
   handlePageUp       |-> "page-up",
   handlePageDown     |-> "page-down",
   handleSubmitSearch |-> "start"]

\* the single-button tests with Start tested first
SingleButtons_StartFirst ==
  << [button |-> BUTTONS.START,          handler |-> "handleSubmitSearch"],
     [button |-> BUTTONS.A,              handler |-> "handleClick"],
     [button |-> BUTTONS.B,              handler |-> "handleBack"],
     [button |-> BUTTONS.Y,              handler |-> "handleHome"],
     [button |-> BUTTONS.X,              handler |-> "handleOpenKeyboard"],
     [button |-> BUTTONS.LEFT_SHOULDER,  handler |-> "handlePageUp"],
     [button |-> BUTTONS.RIGHT_SHOULDER, handler |-> "handlePageDown"] >>

\* the single-button tests of dispatchButtonPress, in source order
SingleButtons ==
  << [button |-> BUTTONS.A,              handler |-> "handleClick"],
     [button |-> BUTTONS.B,              handler |-> "handleBack"],
     [button |-> BUTTONS.Y,              handler |-> "handleHome"],
     [button |-> BUTTONS.X,              handler |-> "handleOpenKeyboard"],
     [button |-> BUTTONS.LEFT_SHOULDER,  handler |-> "handlePageUp"],
     [button |-> BUTTONS.RIGHT_SHOULDER, handler |-> "handlePageDown"],
     [button |-> BUTTONS.START,          handler |-> "handleSubmitSearch"] >>

\* dispatchButtonPress that does not return after toggleVisibility()
dispatchButtonPress_ToggleFallsThrough(state, bgMode, visible) ==
  LET buttons         == state.buttons
      previousButtons == state.previousButtons
      pressed == SelectSeq(SingleButtons,
                   LAMBDA sb : isJustPressed(buttons, previousButtons, sb.button))
      toggle  == IF isComboJustPressed(buttons, previousButtons,
                                       BUTTONS.BACK, BUTTONS.START)
                   THEN << WindowCall("toggleVisibility") >>
                   ELSE << >>
  IN IF isComboJustPressed(buttons, previousButtons, BUTTONS.BACK, BUTTONS.B)
       THEN << WindowCall("closeApp") >>
     ELSE IF bgMode \/ ~visible \/ pressed = << >>
       THEN toggle
     ELSE toggle \o [i \in 1..Len(pressed) |->
             sendGamepadAction(navigationActionHandler[pressed[i].handler])]

\* dispatchButtonPress that tests the background mode before the combos
dispatchButtonPress_GateFirst(state, bgMode, visible) ==
  LET buttons         == state.buttons
      previousButtons == state.previousButtons
      pressed == SelectSeq(SingleButtons,
                   LAMBDA sb : isJustPressed(buttons, previousButtons, sb.button))
  IN IF bgMode
       THEN << >>
     ELSE IF isComboJustPressed(buttons, previousButtons, BUTTONS.BACK, BUTTONS.B)
       THEN << WindowCall("closeApp") >>
     ELSE IF isComboJustPressed(buttons, previousButtons, BUTTONS.BACK, BUTTONS.START)
       THEN << WindowCall("toggleVisibility") >>
     ELSE IF ~visible \/ pressed = << >>
       THEN << >>
     ELSE [i \in 1..Len(pressed) |->
             sendGamepadAction(navigationActionHandler[pressed[i].handler])]

\* dispatchButtonPress(state, backgroundMode): the handler calls it makes, in
\* order.  visible is what windowActionHandler.isWindowVisible() answers.
dispatchButtonPress(state, bgMode, visible) ==
  LET buttons         == state.buttons
      previousButtons == state.previousButtons
      pressed == SelectSeq(SingleButtons,
                   LAMBDA sb : isJustPressed(buttons, previousButtons, sb.button))
  IN IF isComboJustPressed(buttons, previousButtons, BUTTONS.BACK, BUTTONS.B)
       THEN << WindowCall("closeApp") >>
     ELSE IF isComboJustPressed(buttons, previousButtons, BUTTONS.BACK, BUTTONS.START)
       THEN << WindowCall("toggleVisibility") >>
     ELSE IF bgMode
       THEN << >>
     ELSE IF ~visible
       THEN << >>
     ELSE IF pressed = << >>
       THEN << >>
     ELSE [i \in 1..Len(pressed) |->
             sendGamepadAction(navigationActionHandler[pressed[i].handler])]

\* the analog callback of pollGamepad: 'analog-input' {dx, dy}, recorded as
\* the numerators of dx/STICK_MAX*CURSOR_SPEED and dy/STICK_MAX*CURSOR_SPEED
analogCallback(dx, dy) ==
  << Ev("analog-input", "", dx * ANALOG_CONFIG.CURSOR_SPEED,
                            dy * ANALOG_CONFIG.CURSOR_SPEED) >>

\* the scroll callback without the test of |scrollY| > 0.5
scrollCallback_NoThreshold(rightStickX, rightStickY) ==
  << Ev("gamepad-scroll", "", 0, rightStickY * 15) >>

\* the scroll callback of pollGamepad: 'gamepad-scroll' {scrollY}, with
\* scrollY = rightStickY / maxPostDeadzone * 15 recorded as its numerator
\* rightStickY * 15; sent only when |scrollY| > 0.5
scrollCallback(rightStickX, rightStickY) ==
  LET maxPostDeadzone == ANALOG_CONFIG.STICK_MAX - ANALOG_CONFIG.DEADZONE
      scrollSpeed     == 15
      scrollYNum      == rightStickY * scrollSpeed
  IN IF 2 * Abs(scrollYNum) > maxPostDeadzone
       THEN << Ev("gamepad-scroll", "", 0, scrollYNum) >>
       ELSE << >>

\* dispatchAnalog without the isWindowVisible() test
dispatchAnalog_NoVisibleTest(state, visible) ==
  (IF Abs(state.leftStickX) > 100 \/ Abs(state.leftStickY) > 100
     THEN analogCallback(state.leftStickX, -state.leftStickY)
     ELSE << >>)
  \o
  (IF Abs(state.rightStickX) > 100 \/ Abs(state.rightStickY) > 100
     THEN scrollCallback(state.rightStickX, -state.rightStickY)
     ELSE << >>)

\* dispatchAnalog(state, analogCallback, scrollCallback)
dispatchAnalog(state, visible) ==
  IF ~visible
    THEN << >>
    ELSE (IF Abs(state.leftStickX) > 100 \/ Abs(state.leftStickY) > 100
            THEN analogCallback(state.leftStickX, -state.leftStickY)
            ELSE << >>)
         \o
         (IF Abs(state.rightStickX) > 100 \/ Abs(state.rightStickY) > 100
            THEN scrollCallback(state.rightStickX, -state.rightStickY)
            ELSE << >>)

----------------------------------------------------------------------------
(* ButtonRepeatHandler: gamepad-config.js.  Its state h is                 *)
(*   h.rt  repeatTimers, the set of its entries [key, id]; a key is        *)
(*         <<button, "">> or <<button, "_interval">>                       *)
(*   h.tm  the live timers [id, kind, button, released] that setTimeout or  *)
(*         setInterval created for it; button names the callback the timer *)
(*         closes over; released records that a frame showing the button   *)
(*         released was dispatched while the timer's delay was pending     *)

DelayKey(button)    == <<button, "">>
IntervalKey(button) == <<button, "_interval">>

HasKey(rt, key) == \E e \in rt : e.key = key

HandleIds(rt) == {e.id : e \in rt}

\* a new handle <<button, n>>: one that no live timer has and that no
\* repeatTimers entry still holds (setTimeout/setInterval return a new object)
FreshId(button, h) ==
  LET used == {t.id : t \in h.tm} \cup HandleIds(h.rt)
      free(n) == <<button, n>> \notin used
  IN <<button, CHOOSE n \in 1..(Cardinality(used) + 1) :
                 free(n) /\ \A m \in 1..(n - 1) : ~free(m)>>

\* this.repeatTimers[key] = handle
SetKey(rt, key, id) == {e \in rt : e.key # key} \cup {[key |-> key, id |-> id]}

\* clearRepeat that deletes the delay entry without clearTimeout
clearRepeat_KeepsTimeout(button, h) ==
  LET keys == {DelayKey(button), IntervalKey(button)}
      ids  == {e.id : e \in {x \in h.rt : x.key = IntervalKey(button)}}
  IN [rt |-> {e \in h.rt : e.key \notin keys},
      tm |-> {t \in h.tm : t.id \notin ids}]

\* clearRepeat(button)
clearRepeat(button, h) ==
  LET keys == {DelayKey(button), IntervalKey(button)}
      ids  == {e.id : e \in {x \in h.rt : x.key \in keys}}
  IN [rt |-> {e \in h.rt : e.key \notin keys},
      tm |-> {t \in h.tm : t.id \notin ids}]

\* startRepeat that does not clear the repeat already running
startRepeat_NoClear(button, h) ==
  LET id == FreshId(button, h)
  IN [rt |-> SetKey(h.rt, DelayKey(button), id),
      tm |-> h.tm \cup {[id |-> id, kind |-> "timeout", button |-> button,
                         released |-> FALSE]}]

\* startRepeat(button, callback)
startRepeat(button, h) ==
  LET h1 == IF HasKey(h.rt, DelayKey(button)) THEN clearRepeat(button, h) ELSE h
      id == FreshId(button, h1)
  IN [rt |-> SetKey(h1.rt, DelayKey(button), id),
      tm |-> h1.tm \cup {[id |-> id, kind |-> "timeout", button |-> button,
                       released |-> FALSE]}]

\* clearAll that clears the pending delays only
clearAll_TimeoutsOnly(h) ==
  [rt |-> {},
   tm |-> {t \in h.tm : t.id \notin HandleIds(h.rt) \/ t.kind = "interval"}]

\* clearAll()
clearAll(h) ==
  [rt |-> {},
   tm |-> {t \in h.tm : t.id \notin HandleIds(h.rt)}]

\* one d-pad button of dispatchDpad that clears the repeat of a button
\* that stays held
dispatchDpadButton_ClearsHeld(state, button, h) ==
  IF isJustPressed(state.buttons, state.previousButtons, button)
    THEN startRepeat(button, h)
    ELSE clearRepeat(button, h)

\* one d-pad button of dispatchDpad without the clearRepeat of its else
dispatchDpadButton_NoClear(state, button, h) ==
  IF isJustPressed(state.buttons, state.previousButtons, button)
    THEN startRepeat(button, h)
    ELSE h

\* one d-pad button of dispatchDpad
dispatchDpadButton(state, button, h) ==
  IF isPressed(state.buttons, button)
    THEN IF isJustPressed(state.buttons, state.previousButtons, button)
           THEN startRepeat(button, h)
           ELSE h
    ELSE clearRepeat(button, h)

\* dispatchDpad(state, dpadCallback, repeatHandler): up, down, left, right,
\* each button acting on the handler state the one before it left
dispatchDpad(state, visible, h) ==
  IF ~visible
    THEN h
    ELSE LET after(d, hs) == {dispatchDpadButton(state, DpadOrder[d].button, x) : x \in hs}
         IN CHOOSE r \in after(4, after(3, after(2, after(1, {h})))) : TRUE

\* the dpadCallback of pollGamepad for the button a repeat was started on
dpadCallback(button) ==
  LET d == CHOOSE d \in 1..Len(DpadOrder) : DpadOrder[d].button = button
  IN << sendGamepadAction("cursor-" \o DpadOrder[d].direction) >>

\* setBackgroundMode that leaves the repeats running
setBackgroundMode_NoClearAll(enabled, h) ==
  [backgroundMode |-> enabled, h |-> h]

\* setBackgroundMode(enabled): the mode and the handler state it leaves
setBackgroundMode(enabled, h) ==
  [backgroundMode |-> enabled,
   h |-> IF enabled THEN clearAll(h) ELSE h]

----------------------------------------------------------------------------
(* startPolling and stopPolling of gamepad.js.  gamepadInput is "null",     *)
(* "uninitialised" (constructed, XInputGetState not defined) or "ready";   *)
(* handlers says whether repeatHandler and gamepadDispatcher were created;  *)
(* pollInterval is the handle of the polling timer, 0 for null; live holds *)
(* the handles of the polling timers that were set and not cleared.        *)

\* the module state once startPolling() has succeeded
Polling ==
  [gamepadInput |-> "ready", handlers |-> TRUE, pollInterval |-> 1, live |-> {1},
   returned |-> "true"]

\* GamepadInput.init(): XInputGetState gets defined if the library loads
init(loads) == IF loads THEN "ready" ELSE "uninitialised"

\* setInterval(pollGamepad, POLLING.INTERVAL): a handle no live timer has
setPollInterval(p) ==
  LET id == CHOOSE n \in 1..(Cardinality(p.live) + 1) : n \notin p.live
  IN [p EXCEPT !.pollInterval = id, !.live = @ \cup {id}]

\* startPolling without the return when already polling
startPolling_NoGuard(p, loads) ==
  IF p.gamepadInput = "null" /\ init(loads) # "ready"
    THEN [p EXCEPT !.gamepadInput = init(loads), !.returned = "false"]
    ELSE [setPollInterval(p) EXCEPT
            !.gamepadInput = IF p.gamepadInput = "null" THEN init(loads) ELSE @,
            !.handlers = TRUE, !.returned = "true"]

\* startPolling(), where the library loads or not
startPolling(p, loads) ==
  IF p.pollInterval # 0
    THEN [p EXCEPT !.returned = "true"]
  ELSE IF p.gamepadInput = "null" /\ init(loads) # "ready"
    THEN [p EXCEPT !.gamepadInput = init(loads), !.returned = "false"]
  ELSE [setPollInterval(p) EXCEPT
          !.gamepadInput = IF p.gamepadInput = "null" THEN init(loads) ELSE @,
          !.handlers = TRUE, !.returned = "true"]

\* stopPolling(): the module state, the handler state and the remembered
\* buttons it leaves
stopPolling(p, h, last) ==
  [poller |-> IF p.pollInterval # 0
                THEN [p EXCEPT !.live = @ \ {p.pollInterval}, !.pollInterval = 0]
                ELSE p,
   h |-> IF p.handlers THEN clearAll(h) ELSE h,
   lastButtons |-> IF p.gamepadInput # "null" THEN {} ELSE last]

----------------------------------------------------------------------------
(* The window handler of gamepad.js and the listeners of main.js *)

\* windowActionHandler.toggleVisibility(): a visible window is minimized and
\* hidden 50 ms later; a hidden one is shown, restored and focused
toggleVisibility(visible, pending) ==
  IF visible
    THEN [visible |-> TRUE, hidePending |-> TRUE,    event |-> "none"]
    ELSE [visible |-> TRUE, hidePending |-> pending, event |-> "show"]

\* win.on('hide' | 'blur', () => setBackgroundMode(true)),
\* win.on('show' | 'focus', () => setBackgroundMode(false))
onWindowEvent(event, bgMode, h) ==
  IF event \in {"hide", "blur"} THEN setBackgroundMode(TRUE, h)
  ELSE IF event \in {"show", "focus"} THEN setBackgroundMode(FALSE, h)
  ELSE [backgroundMode |-> bgMode, h |-> h]

----------------------------------------------------------------------------
(* The renderer: cursor-config.js, webview-bridge.js (WebviewBridge and     *)
(* ElementDetector), part_003 (GamepadCursor), osk-manager.js, part_002    *)
(* (the wiring).                                                           *)
(*                                                                         *)
(* Lengths are whole numbers of 1/Unit pixel; a quotient is cut to a whole  *)
(* number of units.  The state of the renderer is threaded through its     *)
(* methods as one record r with the fields cursor, detector, queries,      *)
(* rtimers, osk, page, nav and sent.                                       *)

CURSOR_CONFIG ==
  [DPAD_MOVE_MULTIPLIER |-> 4, DPAD_FAST_MULTIPLIER |-> 6,
   SCROLL_ANALOG_STEP |-> 30, SCROLL_PAGE_AMOUNT |-> 300,
   CURSOR_SPEED |-> 8, SCROLL_SPEED |-> 1,
   SNAP_RADIUS |-> 100,
   SNAP_STRENGTH |-> [num |-> 3, den |-> 10]]     \* 0.3

\* the resolution of a length: units per pixel
Unit == 50

Px(n) == n * Unit

\* v evaluated once and handed to F
Bind(v, F(_)) == CHOOSE out \in {F(x) : x \in {v}} : TRUE

RECURSIVE ISqrtFrom(_, _)
ISqrtFrom(n, r) ==
  LET next == (r + n \div r) \div 2
  IN IF next >= r THEN r ELSE ISqrtFrom(n, next)

\* the whole part of the square root of n
ISqrt(n) == IF n = 0 THEN 0 ELSE ISqrtFrom(n, n)

\* Math.max(lo, Math.min(hi, v))
Clamp(lo, hi, v) ==
  LET m == IF hi < v THEN hi ELSE v
  IN IF lo > m THEN lo ELSE m

\* a quotient cut towards zero
Quot(n, d) == IF n < 0 THEN 0 - ((0 - n) \div d) ELSE n \div d

----------------------------------------------------------------------------
(* ElementDetector: webview-bridge.js *)

\* null where a ClickableElement is expected
NoElement ==
  [element |-> "null", tag |-> "", centerX |-> 0, centerY |-> 0,
   left |-> 0, right |-> 0, top |-> 0, bottom |-> 0,
   isWebviewElement |-> FALSE, webviewIndex |-> 0, obj |-> 0]

\* the ClickableElement that refresh call obj builds for the host node n
\* (a node is [name, tag, region, left, top, width, height])
LocalElement(n, obj) ==
  [element |-> n.name, tag |-> n.tag,
   centerX |-> n.left + n.width \div 2, centerY |-> n.top + n.height \div 2,
   left |-> n.left, right |-> n.left + n.width,
   top |-> n.top, bottom |-> n.top + n.height,
   isWebviewElement |-> FALSE, webviewIndex |-> 0, obj |-> obj]

\* the ClickableElement that refresh call obj builds for the result rr of the
\* embedded query ([left, top, width, height, index], in the coordinates of
\* the embedded surface) and the bounding box webviewRect of the surface
WebviewElement(rr, webviewRect, obj) ==
  [element |-> "wiki", tag |-> "WEBVIEW",
   centerX |-> webviewRect.left + rr.left + rr.width \div 2,
   centerY |-> webviewRect.top + rr.top + rr.height \div 2,
   left |-> webviewRect.left + rr.left,
   right |-> webviewRect.left + rr.left + rr.width,
   top |-> webviewRect.top + rr.top,
   bottom |-> webviewRect.top + rr.top + rr.height,
   isWebviewElement |-> TRUE, webviewIndex |-> rr.index, obj |-> obj]

\* getLocalClickableElements(): the toolbar nodes, then (outside a wiki) the
\* landing-page nodes below the toolbar; nodes without extent are left out
getLocalClickableElements(doc, obj) ==
  LET toolbarHeight == Px(36)
      sized(n)   == n.width > 0 /\ n.height > 0
      toolbar    == SelectSeq(doc.dom, LAMBDA n : n.region = "toolbar" /\ sized(n))
      landing    == SelectSeq(doc.dom, LAMBDA n : n.region = "landing" /\ sized(n)
                                                  /\ n.top > toolbarHeight)
      nodes      == IF doc.wikiActive THEN toolbar ELSE toolbar \o landing
  IN IF nodes = << >> THEN << >>
     ELSE [i \in 1..Len(nodes) |-> LocalElement(nodes[i], obj)]

\* the square of the distance from (x, y) to the centre of el
Dist2(el, x, y) ==
  (x - el.centerX) * (x - el.centerX) + (y - el.centerY) * (y - el.centerY)

\* the loop of findNearest from element i on; a distance is carried as its
\* square, so that dist < nearestDist is decided exactly
RECURSIVE findNearestFrom(_, _, _, _, _, _)
findNearestFrom(els, i, x, y, nearest, nearestDist2) ==
  IF i > Len(els) THEN nearest
  ELSE LET el == els[i]
       IN IF x >= el.left /\ x <= el.right /\ y >= el.top /\ y <= el.bottom
            THEN el
            ELSE Bind(Dist2(el, x, y),
                      LAMBDA dist2 :
                        IF dist2 < nearestDist2
                          THEN findNearestFrom(els, i + 1, x, y, el, dist2)
                          ELSE findNearestFrom(els, i + 1, x, y, nearest, nearestDist2))

\* findNearest that looks at the centres only
findNearest_CentresOnly(els, x, y, snapRadius) ==
  LET near == {i \in DOMAIN els : Dist2(els[i], x, y) < snapRadius * snapRadius}
  IN IF near = {} THEN NoElement
     ELSE els[CHOOSE i \in near : \A j \in near :
                Dist2(els[i], x, y) <= Dist2(els[j], x, y)]

\* findNearest(x, y, snapRadius) over allClickableElements = els
findNearest(els, x, y, snapRadius) ==
  IF Len(els) = 0 THEN NoElement
  ELSE findNearestFrom(els, 1, x, y, NoElement, snapRadius * snapRadius)

----------------------------------------------------------------------------
(* What a step of the renderer does to its surroundings *)

\* to: "webview" (a script sent into the embedded surface), "host" (a call
\* on a host node), "wikiManager", "hook" (a callback of OSKManager);
\* el: the host node or field; n, m: numbers (m counts only if ~mNaN);
\* text: a text
Fx(to, cmd, el, n, m, text) ==
  [to |-> to, cmd |-> cmd, el |-> el, n |-> n, m |-> m, mNaN |-> FALSE, text |-> text]

Send(r, fx) == [r EXCEPT !.sent = Append(@, fx)]

\* what the last move did: the position after the delta, the candidate of
\* findNearest there, the displacement of the attraction, and whether the
\* attraction was applied
NoPull == [moved |-> FALSE, mx |-> 0, my |-> 0, cand |-> NoElement,
           ax |-> 0, ay |-> 0, applied |-> FALSE]

\* a handle that no live timer has and no field still holds
FreshTimer(r) ==
  LET used == {t.id : t \in r.rtimers}
              \cup {r.cursor.hideTimeout, r.cursor.elementRefreshInterval,
                    r.nav.navigationTimeout}
  IN CHOOSE n \in 1..(Cardinality(used) + 1) :
       n \notin used /\ \A k \in 1..(n - 1) : k \in used

\* setTimeout / setInterval of the given kind; the handle is not kept
SetTimer(r0, kind) ==
  Bind(r0, LAMBDA r :
    [r EXCEPT !.rtimers = @ \cup {[id |-> FreshTimer(r), kind |-> kind]}])

\* clearTimeout / clearInterval
ClearTimer(r, id) == [r EXCEPT !.rtimers = {t \in @ : t.id # id}]

\* a stamp for the objects a refresh call creates: one that no tracked
\* element, no query in flight and not the highlighted element carries
FreshObj(r) ==
  LET els  == r.detector.allClickableElements
      used == {els[i].obj : i \in DOMAIN els}
              \cup {r.queries[k].id : k \in DOMAIN r.queries}
              \cup UNION {{r.queries[k].existingWebviewElements[i].obj :
                             i \in DOMAIN r.queries[k].existingWebviewElements} :
                           k \in DOMAIN r.queries}
              \cup {r.cursor.currentHighlightedElement.obj}
  IN CHOOSE n \in 1..(Cardinality(used) + 1) :
       n \notin used /\ \A k \in 1..(n - 1) : k \in used

----------------------------------------------------------------------------
(* The scripts that executeJavaScript runs in the embedded page; the page   *)
(* runs them in the order they were sent.  An element of the page is named  *)
(* by where it lies in the page: <<left, top>>                              *)

\* an embedded page without elements
NoWeb == [content |-> << >>, table |-> << >>, selected |-> {}, clicked |-> {}]

WebNode(rr) == <<rr.left, rr.top>>

\* a comes before b in the document
Before(a, b) == a[2] < b[2] \/ (a[2] = b[2] /\ a[1] < b[1])

\* the query script of refresh: window.__gamepadClickables is rebuilt from
\* the elements the page shows
webQuery(w) ==
  [w EXCEPT !.table = IF w.content = << >> THEN << >>
                      ELSE [i \in 1..Len(w.content) |-> WebNode(w.content[i])]]

\* the elements of the document the page shows
WebNodes(w) == {WebNode(w.content[i]) : i \in DOMAIN w.content}

\* the script of highlightElement(webviewIndex); an element the document lost
\* is marked out of sight
webHighlight(w, webviewIndex) ==
  IF webviewIndex < Len(w.table) /\ w.table[webviewIndex + 1] \in WebNodes(w)
    THEN [w EXCEPT !.selected = @ \cup {w.table[webviewIndex + 1]}]
    ELSE w

\* the script of clearHighlights(): document.querySelector answers the first
\* element of the document that carries the class
webClear(w) ==
  IF w.selected = {} THEN w
  ELSE [w EXCEPT !.selected =
          @ \ {CHOOSE a \in w.selected : \A b \in w.selected \ {a} : Before(a, b)}]

\* the script of clickElement(webviewIndex)
webClick(w, webviewIndex) ==
  IF webviewIndex < Len(w.table)
    THEN [w EXCEPT !.clicked = @ \cup {w.table[webviewIndex + 1]}]
    ELSE w

----------------------------------------------------------------------------
(* WebviewBridge: webview-bridge.js *)

\* isActive()
isActive(r) == r.page.wikiActive

\* highlightElement(webviewIndex)
bridgeHighlightElement(r, webviewIndex) ==
  [Send(r, Fx("webview", "highlight", "", webviewIndex, 0, << >>))
     EXCEPT !.web = webHighlight(@, webviewIndex)]

\* clearHighlights()
bridgeClearHighlights(r) ==
  IF ~isActive(r) THEN r
  ELSE [Send(r, Fx("webview", "clearHighlights", "", 0, 0, << >>))
          EXCEPT !.web = webClear(@)]

\* clickElement(webviewIndex)
bridgeClickElement(r, webviewIndex) ==
  [Send(r, Fx("webview", "click", "", webviewIndex, 0, << >>))
     EXCEPT !.web = webClick(@, webviewIndex)]

\* scroll(deltaX, deltaY); deltaY may be NaN
bridgeScroll(r, deltaX, deltaY, yNaN) ==
  IF ~isActive(r) THEN r
  ELSE Send(r, [Fx("webview", "scroll", "", deltaX, deltaY, << >>)
                  EXCEPT !.mNaN = yNaN])

----------------------------------------------------------------------------
(* GamepadCursor: part_003, with ElementDetector.refresh and reset *)

\* _clearAllHighlights()
clearAllHighlights(r0) ==
  Bind(r0, LAMBDA r :
    bridgeClearHighlights(
      IF r.cursor.currentHighlightedLocal # "null"
        THEN [r EXCEPT !.page.marked = @ \ {r.cursor.currentHighlightedLocal},
                       !.cursor.currentHighlightedLocal = "null"]
        ELSE r))

\* _highlightElement(elementInfo)
highlightElement(r0, elementInfo) ==
  Bind(clearAllHighlights(r0), LAMBDA r :
    IF elementInfo = NoElement THEN r
    ELSE IF elementInfo.isWebviewElement
      THEN bridgeHighlightElement(r, elementInfo.webviewIndex)
      ELSE [r EXCEPT !.page.marked = @ \cup {elementInfo.element},
                     !.cursor.currentHighlightedLocal = elementInfo.element])

\* _findNearestElement()
findNearestElement(r) ==
  findNearest(r.detector.allClickableElements, r.cursor.x, r.cursor.y,
              Px(CURSOR_CONFIG.SNAP_RADIUS))

\* _updatePosition()
updatePosition(r0) ==
  Bind(r0, LAMBDA r :
    Bind(findNearestElement(r), LAMBDA nearest :
      IF nearest # NoElement /\ nearest # r.cursor.currentHighlightedElement
        THEN [highlightElement(r, nearest)
                EXCEPT !.cursor.currentHighlightedElement = nearest]
      ELSE IF nearest = NoElement
        THEN [clearAllHighlights(r)
                EXCEPT !.cursor.currentHighlightedElement = NoElement]
      ELSE r))

\* the onComplete that refreshElements hands to refresh
onRefreshComplete(r) == IF r.cursor.visible THEN updatePosition(r) ELSE r

\* ElementDetector.refresh(onComplete), up to the point where it returns: in
\* a wiki the embedded query is left in flight, as the last entry of queries
\* (afterReset: reset() was called since it was issued; superseded: the
\* result of a refresh issued after it has been applied)
refresh(r0) ==
  Bind(r0, LAMBDA r :
    Bind(FreshObj(r), LAMBDA obj :
      Bind(getLocalClickableElements(r.page, obj), LAMBDA localElements :
        IF r.page.wikiActive
          THEN LET existingWebviewElements ==
                     SelectSeq(r.detector.allClickableElements,
                               LAMBDA el : el.isWebviewElement)
                   styled == IF r.detector.highlightStyleInjected THEN r
                             ELSE Send(r, Fx("webview", "injectStyles", "", 0, 0, << >>))
               IN [Send(styled, Fx("webview", "query", "", obj, 0, << >>))
                     EXCEPT !.detector.highlightStyleInjected = TRUE,
                            !.web = webQuery(@),
                            !.queries = Append(@,
                               [id |-> obj,
                                results |-> r.web.content,
                                localElements |-> localElements,
                                existingWebviewElements |-> existingWebviewElements,
                                webviewRect |-> r.page.webviewRect,
                                afterReset |-> FALSE, superseded |-> FALSE])]
          ELSE onRefreshComplete(
                 [r EXCEPT !.detector.allClickableElements = localElements]))))

\* the queries qs once the continuation of entry k has run: the entry is gone,
\* the entries issued before it are superseded
Settled(qs, k) ==
  LET n == Len(qs)
  IN IF n = 1 THEN << >>
     ELSE [i \in 1..(n - 1) |->
             IF i < k THEN [qs[i] EXCEPT !.superseded = TRUE]
                      ELSE qs[i + 1]]

\* the then-continuation of entry k of queries, with the results of the
\* embedded query (records [left, top, width, height, index])
refreshResolved(r, k, results) ==
  LET q == r.queries[k]
      webviewElements ==
        IF results = << >> THEN << >>
        ELSE [i \in 1..Len(results) |-> WebviewElement(results[i], q.webviewRect, q.id)]
  IN onRefreshComplete(
       [r EXCEPT !.queries = Settled(@, k),
                 !.detector.allClickableElements = q.localElements \o webviewElements])

\* the catch-continuation that drops the embedded elements
refreshRejected_DropsEmbedded(r, k) ==
  onRefreshComplete(
    [r EXCEPT !.queries = Settled(@, k),
              !.detector.allClickableElements = r.queries[k].localElements])

\* the catch-continuation of entry k of queries
refreshRejected(r, k) ==
  onRefreshComplete(
    [r EXCEPT !.queries = Settled(@, k),
              !.detector.allClickableElements =
                 r.queries[k].localElements \o r.queries[k].existingWebviewElements])

\* ElementDetector.reset()
detectorReset(r) ==
  [r EXCEPT !.detector.allClickableElements = << >>,
            !.detector.highlightStyleInjected = FALSE,
            !.queries = IF @ = << >> THEN << >>
                        ELSE [i \in 1..Len(@) |-> [@[i] EXCEPT !.afterReset = TRUE]]]

\* refreshElements(forceStyleReinject)
refreshElements(r, forceStyleReinject) ==
  refresh(IF forceStyleReinject
            THEN [r EXCEPT !.detector.highlightStyleInjected = FALSE]
            ELSE r)

\* _resetHideTimer() without the setTimeout
resetHideTimer_NoTimeout(r0) ==
  Bind(r0, LAMBDA r :
    IF r.cursor.hideTimeout # 0 THEN ClearTimer(r, r.cursor.hideTimeout) ELSE r)

\* _resetHideTimer() without the clearTimeout
resetHideTimer_KeepsOld(r0) ==
  Bind(r0, LAMBDA r :
    Bind(FreshTimer(r), LAMBDA id :
      [r EXCEPT !.rtimers = @ \cup {[id |-> id, kind |-> "hide"]},
                !.cursor.hideTimeout = id,
                !.armed = TRUE]))

\* _resetHideTimer()
resetHideTimer(r0) ==
  Bind(r0, LAMBDA r :
    Bind(IF r.cursor.hideTimeout # 0 THEN ClearTimer(r, r.cursor.hideTimeout) ELSE r,
         LAMBDA c :
           Bind(FreshTimer([c EXCEPT !.cursor.hideTimeout = 0]), LAMBDA id :
             [c EXCEPT !.rtimers = @ \cup {[id |-> id, kind |-> "hide"]},
                       !.cursor.hideTimeout = id,
                       !.armed = TRUE])))

\* _startElementRefresh()
startElementRefresh(r0) ==
  Bind(r0, LAMBDA r :
    Bind(IF r.cursor.elementRefreshInterval # 0
           THEN ClearTimer(r, r.cursor.elementRefreshInterval) ELSE r,
         LAMBDA c :
           Bind(FreshTimer([c EXCEPT !.cursor.elementRefreshInterval = 0]), LAMBDA id :
             [c EXCEPT !.rtimers = @ \cup {[id |-> id, kind |-> "elementRefresh"]},
                       !.cursor.elementRefreshInterval = id])))

\* _stopElementRefresh()
stopElementRefresh(r) ==
  IF r.cursor.elementRefreshInterval # 0
    THEN [ClearTimer(r, r.cursor.elementRefreshInterval)
            EXCEPT !.cursor.elementRefreshInterval = 0]
    ELSE r

\* show()
show(r) ==
  refreshElements(
    startElementRefresh(resetHideTimer([r EXCEPT !.cursor.visible = TRUE])),
    FALSE)

\* hide() without _clearAllHighlights()
hide_KeepsHighlight(r) ==
  stopElementRefresh(
    [r EXCEPT !.cursor.visible = FALSE,
              !.cursor.currentHighlightedElement = NoElement])

\* hide()
hide(r) ==
  stopElementRefresh(
    [clearAllHighlights([r EXCEPT !.cursor.visible = FALSE])
       EXCEPT !.cursor.currentHighlightedElement = NoElement])

\* the attraction without the division by the distance
Attraction_NotNormalised(delta, dist) ==
  Quot(delta * CURSOR_CONFIG.CURSOR_SPEED * CURSOR_CONFIG.SNAP_STRENGTH.num
             * (Px(CURSOR_CONFIG.SNAP_RADIUS) - dist),
       Unit * CURSOR_CONFIG.SNAP_STRENGTH.den * CURSOR_CONFIG.SNAP_RADIUS)

\* the displacement of the magnetic attraction along one axis, for the
\* offset delta of the candidate's centre on that axis and the distance
\* dist > 0 to it: delta / dist * CURSOR_SPEED * SNAP_STRENGTH * (1 - dist / SNAP_RADIUS)
Attraction(delta, dist) ==
  Quot(delta * CURSOR_CONFIG.CURSOR_SPEED * CURSOR_CONFIG.SNAP_STRENGTH.num
             * (Px(CURSOR_CONFIG.SNAP_RADIUS) - dist),
       dist * CURSOR_CONFIG.SNAP_STRENGTH.den * CURSOR_CONFIG.SNAP_RADIUS)

\* what move adds to the position (mx, my) for the candidate nearest
Pull(nearest, mx, my) ==
  IF nearest = NoElement
    THEN [NoPull EXCEPT !.moved = TRUE, !.mx = mx, !.my = my]
    ELSE Bind(Dist2(nearest, mx, my), LAMBDA d2 :
           IF d2 < Px(CURSOR_CONFIG.SNAP_RADIUS) * Px(CURSOR_CONFIG.SNAP_RADIUS) /\ d2 > 0
             THEN Bind(ISqrt(d2), LAMBDA distToNearest :
                    [moved |-> TRUE, mx |-> mx, my |-> my, cand |-> nearest,
                     ax |-> Attraction(nearest.centerX - mx, distToNearest),
                     ay |-> Attraction(nearest.centerY - my, distToNearest),
                     applied |-> TRUE])
             ELSE [moved |-> TRUE, mx |-> mx, my |-> my, cand |-> nearest,
                   ax |-> 0, ay |-> 0, applied |-> FALSE])

\* move(dx, dy) without the clamp to the window
move_NoClamp(r0, dx, dy) ==
  Bind(show(r0), LAMBDA r :
    Bind(Pull(findNearest(r.detector.allClickableElements,
                          r.cursor.x + dx, r.cursor.y + dy,
                          Px(CURSOR_CONFIG.SNAP_RADIUS)),
              r.cursor.x + dx, r.cursor.y + dy),
         LAMBDA p :
           resetHideTimer(updatePosition(
             [r EXCEPT !.pull = p,
                       !.cursor.x = p.mx + p.ax,
                       !.cursor.y = p.my + p.ay]))))

\* move(dx, dy)
move(r0, dx, dy) ==
  Bind(show(r0), LAMBDA r :
    Bind(Pull(findNearest(r.detector.allClickableElements,
                          r.cursor.x + dx, r.cursor.y + dy,
                          Px(CURSOR_CONFIG.SNAP_RADIUS)),
              r.cursor.x + dx, r.cursor.y + dy),
         LAMBDA p :
           resetHideTimer(updatePosition(
             [r EXCEPT !.pull = p,
                       !.cursor.x = Clamp(Px(10), r.page.innerWidth - Px(10), p.mx + p.ax),
                       !.cursor.y = Clamp(Px(10), r.page.innerHeight - Px(10), p.my + p.ay)]))))

\* ElementDetector.reset through GamepadCursor.reset()
reset(r) ==
  detectorReset(
    clearAllHighlights([r EXCEPT !.cursor.currentHighlightedElement = NoElement]))

----------------------------------------------------------------------------
(* NavigationManager: cursor-config.js *)

\* _setNavigating(state)
setNavigating(r0, state) ==
  Bind(r0, LAMBDA r :
    Bind(IF r.nav.navigationTimeout # 0
           THEN [ClearTimer(r, r.nav.navigationTimeout) EXCEPT !.nav.navigationTimeout = 0]
           ELSE r,
         LAMBDA c :
           IF state
             THEN Bind(FreshTimer(c), LAMBDA id :
                    [c EXCEPT !.nav.isNavigating = TRUE,
                              !.nav.navigationTimeout = id,
                              !.rtimers = @ \cup {[id |-> id, kind |-> "navigating"]}])
             ELSE [c EXCEPT !.nav.isNavigating = FALSE]))

\* goBack(): whether it navigated, and the state it leaves; history is a
\* sequence, so entry currentIndex is history[currentIndex + 1]
goBack(r) ==
  IF ~r.page.wikiActive \/ r.nav.isNavigating \/ r.nav.currentIndex <= 0
    THEN [ok |-> FALSE, r |-> r]
    ELSE [ok |-> TRUE,
          r  |-> Bind(setNavigating(r, TRUE), LAMBDA n :
                   Send([n EXCEPT !.nav.currentIndex = @ - 1],
                        Fx("wiki", "src", "", r.nav.history[r.nav.currentIndex], 0, << >>)))]

\* goForward(): whether it navigated, and the state it leaves
goForward(r) ==
  IF ~r.page.wikiActive \/ r.nav.isNavigating
     \/ r.nav.currentIndex >= Len(r.nav.history) - 1
    THEN [ok |-> FALSE, r |-> r]
    ELSE [ok |-> TRUE,
          r  |-> Bind(setNavigating(r, TRUE), LAMBDA n :
                   Send([n EXCEPT !.nav.currentIndex = @ + 1],
                        Fx("wiki", "src", "", r.nav.history[r.nav.currentIndex + 2], 0, << >>)))]

\* canGoBack()
canGoBack(n) == n.currentIndex > 0

\* canGoForward()
canGoForward(n) == n.currentIndex < Len(n.history) - 1

\* clearHistory()
clearHistory(r) ==
  [(IF r.nav.navigationTimeout # 0 THEN ClearTimer(r, r.nav.navigationTimeout) ELSE r)
     EXCEPT !.nav = [history |-> << >>, currentIndex |-> -1,
                     isNavigating |-> FALSE, navigationTimeout |-> 0]]

\* _handleNavigate(e) for e.url = url, not 'about:blank'
handleNavigate(r, url) ==
  LET kept == IF r.nav.currentIndex < Len(r.nav.history) - 1
                THEN SubSeq(r.nav.history, 1, r.nav.currentIndex + 1)
                ELSE r.nav.history
  IN IF kept = << >> \/ kept[Len(kept)] # url
       THEN [r EXCEPT !.nav.history = Append(kept, url),
                      !.nav.currentIndex = Len(kept)]
       ELSE [r EXCEPT !.nav.history = kept]

\* _handleStopLoading(); onNavigationComplete schedules refreshElements(true)
handleStopLoading(r) == SetTimer(setNavigating(r, FALSE), "navRefresh")

----------------------------------------------------------------------------
(* WikiManager: renderer/index.js, the owner of the top-level view          *)

\* showLandingPage(): the landing page replaces the wiki view, and the
\* embedded page is replaced by about:blank
wikiShowLandingPage(r) ==
  Send([r EXCEPT !.page.wikiActive = FALSE, !.page.searchDisabled = TRUE,
                 !.web = [NoWeb EXCEPT !.clicked = r.web.clicked]],
       Fx("wikiManager", "showLandingPage", "", 0, 0, << >>))

\* a wiki is opened (a card, a custom URL): the wiki view replaces the
\* landing page
wikiOpen(r) ==
  Send([r EXCEPT !.page.wikiActive = TRUE, !.page.searchDisabled = FALSE],
       Fx("wikiManager", "open", "", 0, 0, << >>))

----------------------------------------------------------------------------
(* The wiring: part_002 *)

\* showLandingPage()
showLandingPage(r) ==
  hide(reset(clearHistory(wikiShowLandingPage(r))))

\* el.click() on the host node el: the call and the listener it runs
hostClick(r0, el) ==
  Bind(Send(r0, Fx("host", "click", el, 0, 0, << >>)), LAMBDA r :
    IF el = "home-btn" THEN showLandingPage(r)
    ELSE IF el = "wiki-card" THEN wikiOpen(r)
    ELSE r)

\* click() without the return on no highlighted element
click_ShowsFirst(r0) ==
  Bind(show(r0), LAMBDA r :
    Bind(r.cursor.currentHighlightedElement, LAMBDA element :
      IF element = NoElement THEN r
      ELSE IF element.isWebviewElement
        THEN SetTimer(bridgeClickElement(r, element.webviewIndex), "clickRefresh")
      ELSE IF element.tag = "INPUT"
        THEN Send(r, Fx("host", "focus", element.element, 0, 0, << >>))
      ELSE hostClick(r, element.element)))

\* GamepadCursor.click(); the element is read once show() has returned, and
\* with none left the read of element.isWebviewElement throws
click(r0) ==
  IF r0.cursor.currentHighlightedElement = NoElement THEN r0
  ELSE Bind(show(r0), LAMBDA r :
         Bind(r.cursor.currentHighlightedElement, LAMBDA element :
           IF element = NoElement THEN r
           ELSE IF element.isWebviewElement
             THEN SetTimer(bridgeClickElement(r, element.webviewIndex), "clickRefresh")
           ELSE IF element.tag = "INPUT"
             THEN Send(r, Fx("host", "focus", element.element, 0, 0, << >>))
           ELSE hostClick(r, element.element)))

\* scrollPage(deltaX, deltaY)
scrollPage(r, deltaX, deltaY) ==
  IF isActive(r)
    THEN SetTimer(bridgeScroll(r, deltaX, deltaY, FALSE), "scrollRefresh")
    ELSE SetTimer(Send(r, Fx("host", "scrollBy", "landing-page", deltaX, deltaY, << >>)),
                  "scrollRefresh")

\* Math.round(n / d) for d > 0
Round(n, d) == (2 * n + d) \div (2 * d)

\* scrollWithGamepad(scrollX, scrollY), scrollX = num / den; the wiring hands
\* it one argument, so scrollY is undefined and scrollAmountY is NaN
scrollWithGamepad(r, num, den) ==
  IF isActive(r)
    THEN LET scrollAmountX == Round(num * CURSOR_CONFIG.SCROLL_SPEED * 5, den)
         IN bridgeScroll(r, scrollAmountX, 0, TRUE)
    ELSE r

----------------------------------------------------------------------------
(* OSKManager: osk-manager.js *)

LAYOUTS ==
  [letters |-> << "Q", "W", "E", "R", "T", "Y", "U", "I", "O", "P",
                  "A", "S", "D", "F", "G", "H", "J", "K", "L", "'",
                  "Z", "X", "C", "V", "B", "N", "M", ",", ".", "-" >>,
   numbers |-> << "1", "2", "3", "4", "5", "6", "7", "8", "9", "0",
                  "!", "@", "#", "$", "%", "^", "&", "*", "(", ")",
                  "+", "=", "[", "]", "{", "}", ":", ";", "\"", "?" >>]

COLS == 10

\* key.toLowerCase()
toLowerCase(key) ==
  LET upper == << "Q", "W", "E", "R", "T", "Y", "U", "I", "O", "P", "A", "S", "D",
                  "F", "G", "H", "J", "K", "L", "Z", "X", "C", "V", "B", "N", "M" >>
      lower == << "q", "w", "e", "r", "t", "y", "u", "i", "o", "p", "a", "s", "d",
                  "f", "g", "h", "j", "k", "l", "z", "x", "c", "v", "b", "n", "m" >>
  IN IF \E i \in DOMAIN upper : upper[i] = key
       THEN lower[CHOOSE i \in DOMAIN upper : upper[i] = key]
       ELSE key

\* Math.ceil(n / d) for d > 0
Ceil(n, d) == (n + d - 1) \div d

\* OSKManager.show(targetInput); onHideCursor is gamepadCursor.hide()
oskShow(r, targetInput) ==
  hide([r EXCEPT !.osk.targetInput = targetInput,
                 !.osk.inputValue = r.page.values[targetInput],
                 !.osk.selectedIndex = 0,
                 !.osk.visible = TRUE])

\* the onSubmit callback of the wiring
onSubmit(r0, targetInput, value) ==
  Bind(Send(r0, Fx("hook", "onSubmit", targetInput, 0, 0, value)), LAMBDA r :
    IF targetInput = "search-input"
      THEN Send(r, Fx("wikiManager", "performSearch", "", 0, 0, << >>))
    ELSE IF targetInput = "wiki-url-input"
      THEN Send(r, Fx("wikiManager", "goToCustomUrl", "", 0, 0, << >>))
    ELSE r)

\* OSKManager.hide that writes the buffer back whether submitted or not
oskHide_AlwaysWrites(r0, submit) ==
  Bind(r0, LAMBDA r :
    show([(IF r.osk.targetInput # "null"
             THEN onSubmit([r EXCEPT !.page.values[r.osk.targetInput] = r.osk.inputValue],
                           r.osk.targetInput, r.osk.inputValue)
             ELSE r)
            EXCEPT !.osk.visible = FALSE, !.osk.targetInput = "null"]))

\* OSKManager.hide(submit); onShowCursor is gamepadCursor.show()
oskHide(r0, submit) ==
  Bind(r0, LAMBDA r :
    show([(IF submit /\ r.osk.targetInput # "null"
             THEN onSubmit([r EXCEPT !.page.values[r.osk.targetInput] = r.osk.inputValue],
                           r.osk.targetInput, r.osk.inputValue)
             ELSE r)
            EXCEPT !.osk.visible = FALSE, !.osk.targetInput = "null"]))

\* navigate without the wraparound: the selection stops at the edges
navigate_NoWrap(r, direction) ==
  LET keys == LAYOUTS[r.osk.currentLayout]
      rows == Ceil(Len(keys), COLS)
      col  == r.osk.selectedIndex % COLS
      row  == r.osk.selectedIndex \div COLS
      row2 == IF direction = "up" THEN (IF row > 0 THEN row - 1 ELSE row)
              ELSE IF direction = "down" THEN (IF row < rows - 1 THEN row + 1 ELSE row)
              ELSE row
      col2 == IF direction = "left" THEN (IF col > 0 THEN col - 1 ELSE col)
              ELSE IF direction = "right" THEN (IF col < COLS - 1 THEN col + 1 ELSE col)
              ELSE col
  IN [r EXCEPT !.osk.selectedIndex = row2 * COLS + col2]

\* navigate(direction)
navigate(r, direction) ==
  LET keys == LAYOUTS[r.osk.currentLayout]
      rows == Ceil(Len(keys), COLS)
      col  == r.osk.selectedIndex % COLS
      row  == r.osk.selectedIndex \div COLS
      row2 == IF direction = "up" THEN (row - 1 + rows) % rows
              ELSE IF direction = "down" THEN (row + 1) % rows
              ELSE row
      col2 == IF direction = "left" THEN (col - 1 + COLS) % COLS
              ELSE IF direction = "right" THEN (col + 1) % COLS
              ELSE col
      newIndex == row2 * COLS + col2
  IN [r EXCEPT !.osk.selectedIndex =
                  IF newIndex >= Len(keys) THEN Len(keys) - 1 ELSE newIndex]

\* handleAnalogNavigation without the test of the time since lastAnalogNav
handleAnalogNavigation_NoDebounce(r, dx, dy) ==
  IF Abs(dx) > Px(4) \/ Abs(dy) > Px(4)
    THEN Bind([r EXCEPT !.osk.sinceAnalogNav = 0], LAMBDA n :
           IF Abs(dx) > Abs(dy)
             THEN navigate(n, IF dx > 0 THEN "right" ELSE "left")
             ELSE navigate(n, IF dy > 0 THEN "down" ELSE "up"))
  ELSE r

\* handleAnalogNavigation(dx, dy), dx and dy in units; the time since
\* lastAnalogNav is osk.sinceAnalogNav (ms, counted up to 150)
handleAnalogNavigation(r, dx, dy) ==
  IF r.osk.sinceAnalogNav < 150 THEN r
  ELSE IF Abs(dx) > Px(4) \/ Abs(dy) > Px(4)
    THEN Bind([r EXCEPT !.osk.sinceAnalogNav = 0], LAMBDA n :
           IF Abs(dx) > Abs(dy)
             THEN navigate(n, IF dx > 0 THEN "right" ELSE "left")
             ELSE navigate(n, IF dy > 0 THEN "down" ELSE "up"))
  ELSE r

\* typeSelected()
typeSelected(r) ==
  LET keys == LAYOUTS[r.osk.currentLayout]
  IN IF r.osk.selectedIndex < Len(keys)
       THEN [r EXCEPT !.osk.inputValue =
                         Append(@, toLowerCase(keys[r.osk.selectedIndex + 1]))]
       ELSE r

\* backspace()
backspace(r) ==
  [r EXCEPT !.osk.inputValue = IF @ = << >> THEN << >> ELSE SubSeq(@, 1, Len(@) - 1)]

\* space()
space(r) == [r EXCEPT !.osk.inputValue = Append(@, " ")]

\* switchLayout()
switchLayout(r) ==
  LET layout == IF r.osk.currentLayout = "letters" THEN "numbers" ELSE "letters"
      last   == Len(LAYOUTS[layout]) - 1
  IN [r EXCEPT !.osk.currentLayout = layout,
               !.osk.selectedIndex = IF @ < last THEN @ ELSE last]

----------------------------------------------------------------------------
(* The gamepad listeners of the wiring: part_002 *)

\* OSK_ACTIONS[action]()
oskAction(r, action) ==
  CASE action \in {"cursor-up", "cursor-up-fast"}       -> navigate(r, "up")
    [] action \in {"cursor-down", "cursor-down-fast"}   -> navigate(r, "down")
    [] action \in {"cursor-left", "cursor-left-fast"}   -> navigate(r, "left")
    [] action \in {"cursor-right", "cursor-right-fast"} -> navigate(r, "right")
    [] action = "click"                                  -> typeSelected(r)
    [] action = "back"                                   -> oskHide(r, FALSE)
    [] action = "search"                                 -> backspace(r)
    [] action = "home"                                   -> space(r)
    [] action \in {"page-up", "page-down"}               -> switchLayout(r)
    [] action = "start"                                  -> oskHide(r, TRUE)
    [] OTHER                                             -> r

\* handleClick()
handleClick(r) ==
  LET highlighted == r.cursor.currentHighlightedElement
  IN IF highlighted # NoElement /\ ~highlighted.isWebviewElement
        /\ highlighted.tag = "INPUT"
        /\ ~(highlighted.element = "search-input" /\ r.page.searchDisabled)
       THEN oskShow(r, highlighted.element)
       ELSE click(r)

\* GAMEPAD_ACTIONS[action]()
gamepadAction(r, action) ==
  LET speed == Px(CURSOR_CONFIG.CURSOR_SPEED)
      slow  == speed * CURSOR_CONFIG.DPAD_MOVE_MULTIPLIER
      fast  == speed * CURSOR_CONFIG.DPAD_FAST_MULTIPLIER
  IN CASE action = "cursor-up"         -> move(r, 0, 0 - slow)
       [] action = "cursor-up-fast"    -> move(r, 0, 0 - fast)
       [] action = "cursor-down"       -> move(r, 0, slow)
       [] action = "cursor-down-fast"  -> move(r, 0, fast)
       [] action = "cursor-left"       -> move(r, 0 - slow, 0)
       [] action = "cursor-left-fast"  -> move(r, 0 - fast, 0)
       [] action = "cursor-right"      -> move(r, slow, 0)
       [] action = "cursor-right-fast" -> move(r, fast, 0)
       [] action = "scroll-up-analog"  -> scrollPage(r, 0, 0 - CURSOR_CONFIG.SCROLL_ANALOG_STEP)
       [] action = "scroll-down-analog" -> scrollPage(r, 0, CURSOR_CONFIG.SCROLL_ANALOG_STEP)
       [] action = "page-up"           -> scrollPage(r, 0, 0 - CURSOR_CONFIG.SCROLL_PAGE_AMOUNT)
       [] action = "page-down"         -> scrollPage(r, 0, CURSOR_CONFIG.SCROLL_PAGE_AMOUNT)
       [] action = "click"             -> handleClick(r)
       [] action = "back" ->
            IF r.page.wikiActive
              THEN Bind(goBack(r), LAMBDA b :
                     SetTimer(IF b.ok THEN b.r ELSE showLandingPage(b.r), "backRefresh"))
              ELSE r
       [] action = "home"              -> showLandingPage(r)
       [] action = "search" ->
            IF r.page.wikiActive /\ ~r.page.searchDisabled
              THEN oskShow(show(r), "search-input")
              ELSE r
       [] OTHER                        -> r

\* the listener of onGamepadAction without the keyboard routing
onGamepadAction_NoRouting(r, action) == gamepadAction(r, action)

\* the listener of onGamepadAction
onGamepadAction(r, action) ==
  IF r.osk.visible THEN oskAction(r, action) ELSE gamepadAction(r, action)

\* the listener of onAnalogInput without the test of the keyboard
onAnalogInput_NoRouting(r, dx, dy) ==
  IF dx # 0 \/ dy # 0 THEN move(r, dx, dy) ELSE r

\* the listener of onAnalogInput; data.dx and data.dy in units
onAnalogInput(r, dx, dy) ==
  IF r.osk.visible THEN handleAnalogNavigation(r, dx, dy)
  ELSE IF dx # 0 \/ dy # 0 THEN move(r, dx, dy)
  ELSE r

\* the listener of onGamepadScroll; data.scrollY = num / den
onGamepadScroll(r, num, den) ==
  IF r.page.wikiActive /\ ~r.osk.visible
    THEN scrollWithGamepad(r, num, den)
    ELSE r

----------------------------------------------------------------------------
(* The renderer as a state machine *)

\* the host nodes that can be clicked: the toolbar, then the landing page
HostDom ==
  << [name |-> "home-btn", tag |-> "BUTTON", region |-> "toolbar",
      left |-> Px(10), top |-> Px(6), width |-> Px(30), height |-> Px(24)],
     [name |-> "search-input", tag |-> "INPUT", region |-> "toolbar",
      left |-> Px(100), top |-> Px(6), width |-> Px(200), height |-> Px(24)],
     [name |-> "wiki-card", tag |-> "DIV", region |-> "landing",
      left |-> Px(150), top |-> Px(100), width |-> Px(100), height |-> Px(100)],
     [name |-> "wiki-url-input", tag |-> "INPUT", region |-> "landing",
      left |-> Px(100), top |-> Px(240), width |-> Px(200), height |-> Px(30)] >>

\* the bounding box of the embedded surface: below the toolbar
WebviewRect == [left |-> 0, top |-> Px(36)]

\* what the embedded query can answer: the boxes of a page, in the
\* coordinates of the embedded surface
PageLink(left, top, index) ==
  [left |-> Px(left), top |-> Px(top), width |-> Px(60), height |-> Px(20), index |-> index]

QueryResults ==
  { << >>,
    << PageLink(170, 104, 0) >>,
    << PageLink(40, 40, 0), PageLink(170, 104, 1) >> }

NoQuery ==
  [id |-> 0, results |-> << >>, localElements |-> << >>,
   existingWebviewElements |-> << >>,
   webviewRect |-> WebviewRect, afterReset |-> FALSE, superseded |-> FALSE]

\* the renderer's state at the start of a step
Renderer ==
  [cursor |-> cursor, detector |-> detector, queries |-> queries,
   rtimers |-> rtimers, osk |-> osk, page |-> page, nav |-> nav,
   sent |-> << >>, pull |-> NoPull, web |-> [web EXCEPT !.clicked = {}],
   armed |-> FALSE]

\* what a step keeps of the state it started in: the keyboard, the text
\* fields, the tracked elements, whether the cursor was visible and the
\* elements that carried the highlight marker
Was ==
  [osk |-> osk, values |-> page.values,
   elements |-> detector.allClickableElements, cursorVisible |-> cursor.visible,
   marked |-> page.marked, selected |-> web.selected]

\* the step leaves the renderer as r; kind, arg and q say what the step was
\* (q: the entry of queries whose continuation ran); n counts the input
\* events taken so far; was is the state the step started in; armed says
\* whether the step set the auto-hide timeout
Commit(r, kind, arg, q, cost) ==
  /\ cursor' = r.cursor
  /\ detector' = r.detector
  /\ queries' = r.queries
  /\ rtimers' = r.rtimers
  /\ osk' = r.osk
  /\ page' = r.page
  /\ nav' = r.nav
  /\ sent' = r.sent
  /\ pull' = r.pull
  /\ web' = r.web
  /\ step' = [kind |-> kind, arg |-> arg, q |-> q, n |-> step.n + cost, was |-> Was,
              armed |-> r.armed]

\* the renderer in a window of innerWidth x innerHeight, with the cursor at
\* (x, y), the elements els tracked and the wiki view active or not
RendererAt(innerWidth, innerHeight, x, y, els, wikiActive) ==
  /\ cursor = [x |-> x, y |-> y, visible |-> FALSE,
               hideTimeout |-> 0, elementRefreshInterval |-> 0,
               currentHighlightedElement |-> NoElement,
               currentHighlightedLocal |-> "null"]
  /\ detector = [allClickableElements |-> els, highlightStyleInjected |-> FALSE]
  /\ queries = << >>
  /\ rtimers = {}
  /\ osk = [visible |-> FALSE, selectedIndex |-> 0, currentLayout |-> "letters",
            inputValue |-> << >>, targetInput |-> "null", sinceAnalogNav |-> 150]
  /\ page = [wikiActive |-> wikiActive, searchDisabled |-> ~wikiActive,
             innerWidth |-> innerWidth, innerHeight |-> innerHeight,
             dom |-> HostDom, webviewRect |-> WebviewRect,
             values |-> [f \in {"search-input", "wiki-url-input"} |-> << >>],
             marked |-> {}]
  /\ nav = [history |-> << >>, currentIndex |-> -1, isNavigating |-> FALSE,
            navigationTimeout |-> 0]
  /\ sent = << >>
  /\ pull = NoPull
  /\ web = NoWeb
  /\ step = [kind |-> "init", arg |-> "", q |-> NoQuery, n |-> 0, was |-> Was,
             armed |-> FALSE]

\* the state after the modules were constructed and the landing page shown:
\* the cursor in the middle of the window, nothing tracked
RendererInit ==
  RendererAt(Px(400), Px(300), Px(400) \div 2, Px(300) \div 2, << >>, FALSE)

\* the main process at rest
MainInit ==
  /\ lastButtons = {}
  /\ backgroundMode = FALSE
  /\ winVisible = TRUE
  /\ hidePending = FALSE
  /\ repeatTimers = {}
  /\ timers = {}
  /\ emitted = << >>
  /\ tick = [kind |-> "init", bg |-> FALSE, vis |-> TRUE, button |-> 0, noted |-> {}]
  /\ shown = {}
  /\ poller = Polling
  /\ dz = <<0, 0, 0, 0>>

----------------------------------------------------------------------------
(* State machine *)

Range(f) == {f[i] : i \in DOMAIN f}

Handler == [rt |-> repeatTimers, tm |-> timers]

\* kind: the step; bg, vis: the mode and visibility it started under;
\* button: the button of a timer or handler call; noted: for a frame, the
\* d-pad buttons it shows released while their delay was pending; for a
\* timer, its button if such a release had been dispatched; for startRepeat
\* and clearRepeat, its button if a repeat of it was live; for a window event, the buttons
\* whose repeat was live when it arrived
Tick(kind, button, noted) ==
  [kind |-> kind, bg |-> backgroundMode, vis |-> winVisible, button |-> button,
   noted |-> noted]

Init == MainInit /\ RendererInit

\* pollGamepad() when the sampler produced a frame
Poll(wButtons, sThumb) ==
  /\ poller.live # {} /\ poller.gamepadInput = "ready"
  /\ \E p \in {poll(wButtons, sThumb, lastButtons)} :
     \E calls \in {dispatchButtonPress(p.state, backgroundMode, winVisible)} :
     \E w \in {IF WindowCall("toggleVisibility") \in Range(calls)
                     THEN toggleVisibility(winVisible, hidePending)
                     ELSE [visible |-> winVisible, hidePending |-> hidePending,
                           event |-> "none"]} :
     \E m \in {onWindowEvent(w.event, backgroundMode, Handler)} :
     \E h \in {IF m.backgroundMode
                     THEN m.h
                     ELSE dispatchDpad(p.state, w.visible, m.h)} :
     LET analog == IF m.backgroundMode
                     THEN << >>
                     ELSE dispatchAnalog(p.state, w.visible)
         \* the d-pad buttons this frame shows released while their delay is
         \* pending, when dispatchDpad handles the frame
         early  == IF ~m.backgroundMode /\ w.visible
                     THEN {b \in DpadButtons \ wButtons :
                             \E t \in timers : t.button = b /\ t.kind = "timeout"}
                     ELSE {}
     IN /\ lastButtons' = p.lastButtons
        /\ backgroundMode' = m.backgroundMode
        /\ winVisible' = w.visible
        /\ hidePending' = w.hidePending
        /\ repeatTimers' = h.rt
        /\ timers' = {[t EXCEPT !.released = @ \/ (t.button \in early)] : t \in h.tm}
        /\ emitted' = calls \o analog
        /\ tick' = Tick("poll", 0, early)
        /\ shown' = wButtons
        /\ dz' = <<sThumb[3], sThumb[4], p.state.rightStickX, p.state.rightStickY>>
        /\ UNCHANGED poller
        /\ UNCHANGED rendererVars

\* a tick without a frame that forgets the buttons of the last frame
PollNone_ForgetsButtons ==
  /\ poller.live # {}
  /\ lastButtons' = {}
  /\ emitted' = << >>
  /\ tick' = Tick("noFrame", 0, {})
  /\ UNCHANGED <<backgroundMode, winVisible, hidePending, poller,
                 repeatTimers, timers, shown, dz>>
  /\ UNCHANGED rendererVars

\* pollGamepad() when poll() returned null (no device, or the query failed)
PollNone ==
  /\ poller.live # {}
  /\ emitted' = << >>
  /\ tick' = Tick("noFrame", 0, {})
  /\ UNCHANGED <<lastButtons, backgroundMode, winVisible, hidePending, poller,
                 repeatTimers, timers, shown, dz>>
  /\ UNCHANGED rendererVars

\* the setTimeout callback of startRepeat: the initial delay has elapsed
DelayElapsed(t) ==
  /\ t \in timers
  /\ t.kind = "timeout"
  /\ LET rest == [rt |-> repeatTimers, tm |-> timers \ {t}]
         id   == FreshId(t.button, rest)
     IN /\ timers' = rest.tm \cup {[id |-> id, kind |-> "interval", button |-> t.button,
                               released |-> t.released]}
        /\ repeatTimers' = SetKey(repeatTimers, IntervalKey(t.button), id)
  /\ emitted' = dpadCallback(t.button)
  /\ tick' = Tick("delay", t.button, IF t.released THEN {t.button} ELSE {})
  /\ UNCHANGED <<lastButtons, backgroundMode, winVisible, hidePending, poller,
                 shown, dz>>
  /\ UNCHANGED rendererVars

\* the setInterval callback of startRepeat
IntervalTick(t) ==
  /\ t \in timers
  /\ t.kind = "interval"
  /\ emitted' = dpadCallback(t.button)
  /\ tick' = Tick("interval", t.button, IF t.released THEN {t.button} ELSE {})
  /\ UNCHANGED <<lastButtons, backgroundMode, winVisible, hidePending, poller,
                 repeatTimers, timers, shown, dz>>
  /\ UNCHANGED rendererVars

\* a window event reaching the listeners of main.js
WindowEvent(event, visible) ==
  LET m == onWindowEvent(event, backgroundMode, Handler)
  IN /\ winVisible' = visible
     /\ backgroundMode' = m.backgroundMode
     /\ repeatTimers' = m.h.rt
     /\ timers' = m.h.tm
     /\ emitted' = << >>
     /\ tick' = Tick(event, 0, {t.button : t \in timers})
     /\ UNCHANGED <<lastButtons, shown, poller, dz>>
     /\ UNCHANGED rendererVars

\* the 50 ms timeout of toggleVisibility: win.hide()
HideTimeout ==
  /\ hidePending
  /\ hidePending' = FALSE
  /\ IF winVisible
       THEN WindowEvent("hide", FALSE)
       ELSE WindowEvent("none", FALSE)

\* the window is hidden or shown from outside (hide() and show() of another
\* caller); 'blur' and 'focus' are taken to arrive at any time
WinHide  == winVisible  /\ WindowEvent("hide", FALSE)       /\ UNCHANGED hidePending
WinShow  == ~winVisible /\ WindowEvent("show", TRUE)        /\ UNCHANGED hidePending
WinBlur  == WindowEvent("blur", winVisible)  /\ UNCHANGED hidePending
WinFocus == WindowEvent("focus", winVisible) /\ UNCHANGED hidePending

\* The pipeline: frames that hold the d-pad, timers, sticks and the window
Next ==
  \/ \E wButtons \in DpadFrames, sThumb \in StickSamples : Poll(wButtons, sThumb)
  \/ PollNone
  \/ \E t \in timers : DelayElapsed(t)
  \/ \E t \in timers : IntervalTick(t)
  \/ HideTimeout
  \/ WinHide
  \/ WinShow
  \/ WinBlur
  \/ WinFocus

Spec == Init /\ [][Next]_vars

\* The buttons: frames over every action button, sticks at rest
NextButtons ==
  \/ \E wButtons \in ButtonFrames : Poll(wButtons, NeutralSticks)
  \/ PollNone
  \/ HideTimeout
  \/ WinHide
  \/ WinShow
  \/ WinBlur
  \/ WinFocus

SpecButtons == Init /\ [][NextButtons]_vars

\* The d-pad: the frames of the pipeline with the sticks at rest
NextDpad ==
  \/ \E wButtons \in DpadFrames : Poll(wButtons, NeutralSticks)
  \/ PollNone
  \/ \E t \in timers : DelayElapsed(t)
  \/ \E t \in timers : IntervalTick(t)
  \/ HideTimeout
  \/ WinHide
  \/ WinShow
  \/ WinBlur
  \/ WinFocus

SpecDpad == Init /\ [][NextDpad]_vars

\* One tick in full: frames over every action button, sticks at rest or
\* moved beyond the deadzone; the window hidden and shown by Back+Start
NextTick ==
  \/ \E wButtons \in ButtonFrames, sThumb \in {NeutralSticks, <<9000, -8050, 8200, -20000>>} :
       Poll(wButtons, sThumb)
  \/ HideTimeout

SpecTick == Init /\ [][NextTick]_vars

----------------------------------------------------------------------------
(* Polling started and stopped *)

StartPolling(loads) ==
  /\ poller' = startPolling(poller, loads)
  /\ emitted' = << >>
  /\ tick' = Tick("startPolling", 0, {})
  /\ UNCHANGED <<lastButtons, backgroundMode, winVisible, hidePending,
                 repeatTimers, timers, shown, dz>>
  /\ UNCHANGED rendererVars

StopPolling ==
  LET s == stopPolling(poller, Handler, lastButtons)
  IN /\ poller' = s.poller
     /\ repeatTimers' = s.h.rt
     /\ timers' = s.h.tm
     /\ lastButtons' = s.lastButtons
     /\ emitted' = << >>
     /\ tick' = Tick("stopPolling", 0, {t.button : t \in timers})
     /\ UNCHANGED <<backgroundMode, winVisible, hidePending, shown, dz>>
     /\ UNCHANGED rendererVars

NextPolling ==
  \/ \E loads \in BOOLEAN : StartPolling(loads)
  \/ StopPolling
  \/ \E wButtons \in SUBSET DpadButtons :
       Cardinality(wButtons) <= MaxDpadHeld /\ Poll(wButtons, NeutralSticks)
  \/ PollNone
  \/ \E t \in timers : DelayElapsed(t)
  \/ \E t \in timers : IntervalTick(t)

\* the main process before the first startPolling()
InitPolling ==
  /\ lastButtons = {}
  /\ backgroundMode = FALSE
  /\ winVisible = TRUE
  /\ hidePending = FALSE
  /\ repeatTimers = {}
  /\ timers = {}
  /\ emitted = << >>
  /\ tick = [kind |-> "init", bg |-> FALSE, vis |-> TRUE, button |-> 0, noted |-> {}]
  /\ shown = {}
  /\ poller = [gamepadInput |-> "null", handlers |-> FALSE, pollInterval |-> 0,
               live |-> {}, returned |-> "none"]
  /\ dz = <<0, 0, 0, 0>>
  /\ RendererInit

SpecPolling == InitPolling /\ [][NextPolling]_vars

----------------------------------------------------------------------------
(* ButtonRepeatHandler driven through its own interface *)

HandlerCall(kind, button, h) ==
  /\ repeatTimers' = h.rt
  /\ timers' = h.tm
  /\ emitted' = << >>
  /\ tick' = Tick(kind, button,
                  IF kind \in {"startRepeat", "clearRepeat"}
                     /\ \E t \in timers : t.button = button
                    THEN {button} ELSE {})
  /\ UNCHANGED <<lastButtons, backgroundMode, winVisible, hidePending, poller,
                 shown, dz>>
  /\ UNCHANGED rendererVars

StartRepeat(button) == HandlerCall("startRepeat", button, startRepeat(button, Handler))

ClearRepeat(button) == HandlerCall("clearRepeat", button, clearRepeat(button, Handler))

ClearAll == HandlerCall("clearAll", 0, clearAll(Handler))

NextRepeat ==
  \/ \E button \in DpadButtons : StartRepeat(button)
  \/ \E button \in DpadButtons : ClearRepeat(button)
  \/ ClearAll
  \/ \E t \in timers : DelayElapsed(t)
  \/ \E t \in timers : IntervalTick(t)

SpecRepeat == Init /\ [][NextRepeat]_vars

----------------------------------------------------------------------------
(* applyDeadzone on pairs of raw axis values *)

InitDeadzone ==
  /\ lastButtons = {}
  /\ backgroundMode = FALSE
  /\ winVisible = TRUE
  /\ hidePending = FALSE
  /\ repeatTimers = {}
  /\ timers = {}
  /\ emitted = << >>
  /\ tick = [kind |-> "init", bg |-> FALSE, vis |-> TRUE, button |-> 0, noted |-> {}]
  /\ shown = {}
  /\ poller = Polling
  /\ dz \in {<<v, w, 0, 0>> : v \in AxisSamples, w \in AxisSamples}
  /\ RendererInit

ApplyDeadzone ==
  /\ tick.kind = "init"
  /\ dz' = <<dz[1], dz[2], applyDeadzone(dz[1]), applyDeadzone(dz[2])>>
  /\ tick' = Tick("applyDeadzone", 0, {})
  /\ UNCHANGED <<lastButtons, backgroundMode, winVisible, hidePending, poller,
                 repeatTimers, timers, emitted, shown>>
  /\ UNCHANGED rendererVars

SpecDeadzone == InitDeadzone /\ [][ApplyDeadzone]_vars

----------------------------------------------------------------------------
(* OSKManager driven through show, navigate and switchLayout *)

Directions == {"up", "down", "left", "right"}

TextFields == {"search-input", "wiki-url-input"}

\* oskManager.show(targetInput)
KeysShow(targetInput) ==
  /\ Commit(oskShow(Renderer, targetInput), "show", targetInput, NoQuery, 0)
  /\ UNCHANGED mainVars

\* oskManager.navigate(direction)
KeysNavigate(direction) ==
  /\ Commit(navigate(Renderer, direction), "navigate", direction, NoQuery, 0)
  /\ UNCHANGED mainVars

\* oskManager.switchLayout()
KeysSwitchLayout ==
  /\ Commit(switchLayout(Renderer), "switchLayout", "", NoQuery, 0)
  /\ UNCHANGED mainVars

NextKeys ==
  \/ \E targetInput \in TextFields : KeysShow(targetInput)
  \/ \E direction \in Directions : KeysNavigate(direction)
  \/ KeysSwitchLayout

SpecKeys == Init /\ [][NextKeys]_vars

----------------------------------------------------------------------------
(* OSKManager driven through show, typing and hide *)

\* the longest buffer typed
MaxBuffer == 2

\* oskManager.hide(submit)
OskHide(submit) ==
  /\ Commit(oskHide(Renderer, submit), "hide",
            IF submit THEN "submit" ELSE "cancel", NoQuery, 0)
  /\ UNCHANGED mainVars

\* oskManager.typeSelected()
OskTypeSelected ==
  /\ Len(osk.inputValue) < MaxBuffer
  /\ Commit(typeSelected(Renderer), "typeSelected", "", NoQuery, 0)
  /\ UNCHANGED mainVars

\* oskManager.backspace()
OskBackspace ==
  /\ Commit(backspace(Renderer), "backspace", "", NoQuery, 0)
  /\ UNCHANGED mainVars

NextOsk ==
  \/ \E targetInput \in TextFields : KeysShow(targetInput)
  \/ \E submit \in BOOLEAN : OskHide(submit)
  \/ OskTypeSelected
  \/ OskBackspace
  \/ KeysSwitchLayout

SpecOsk == Init /\ [][NextOsk]_vars

----------------------------------------------------------------------------
(* The renderer: gamepad events, timers, query continuations, page events *)

\* the events of a behaviour: inputs, timer callbacks and continuations
MaxEvents == 4

\* the embedded queries in flight at a time
MaxQueries == 2

\* the actions of 'gamepad-action': each direction at one of its two speeds,
\* one scroll of each size, and every button
Actions ==
  {"cursor-up", "cursor-down-fast", "cursor-left", "cursor-right-fast",
   "scroll-down-analog", "page-up",
   "click", "back", "home", "search", "start"}

\* data.dx, data.dy of 'analog-input'
AnalogDeltas == {<<Px(6), Px(2)>>, <<0 - Px(3), Px(8)>>}

\* the pages of a wiki
Urls == {1, 2}

\* an input event leaves the renderer as r
Event(r, kind, arg) ==
  /\ step.n < MaxEvents
  /\ Len(r.queries) <= MaxQueries
  /\ Commit(r, kind, arg, NoQuery, 1)
  /\ UNCHANGED mainVars

\* a timer callback or continuation leaves the renderer as r
Callback(r, kind, q) ==
  /\ step.n < MaxEvents
  /\ Len(r.queries) <= MaxQueries
  /\ Commit(r, kind, "", q, 1)
  /\ UNCHANGED mainVars

\* the renderer once the timeout t has fired
Fired(t) == [Renderer EXCEPT !.rtimers = @ \ {t}]

GamepadAction(action) ==
  Event(onGamepadAction(Renderer, action), "action", action)

AnalogInput(dx, dy) ==
  Event(onAnalogInput(Renderer, dx, dy), "analog", "")

GamepadScroll(num, den) ==
  Event(onGamepadScroll(Renderer, num, den), "scroll", "")

\* 150 ms have passed since the last analog navigation of the keyboard
DebounceElapsed ==
  /\ osk.sinceAnalogNav < 150
  /\ Callback([Renderer EXCEPT !.osk.sinceAnalogNav = 150], "debounce", NoQuery)

\* 'did-navigate' of the embedded surface
DidNavigate(url) ==
  /\ page.wikiActive
  /\ Event(handleNavigate(Renderer, url), "did-navigate", "")

\* 'did-stop-loading' of the embedded surface
DidStopLoading ==
  /\ page.wikiActive
  /\ Event(handleStopLoading(Renderer), "did-stop-loading", "")

\* the timeout of _resetHideTimer: hide()
HideTimerFires(t) ==
  /\ t \in rtimers /\ t.kind = "hide"
  /\ Callback(hide(Fired(t)), "hideTimer", NoQuery)

\* the interval of _startElementRefresh
ElementRefreshTick(t) ==
  /\ t \in rtimers /\ t.kind = "elementRefresh"
  /\ Callback(IF cursor.visible THEN refreshElements(Renderer, FALSE) ELSE Renderer,
              "elementRefresh", NoQuery)

\* the timeout of click() after a click in the embedded surface
ClickRefreshFires(t) ==
  /\ t \in rtimers /\ t.kind = "clickRefresh"
  /\ Callback(refreshElements(
                [Fired(t) EXCEPT !.cursor.currentHighlightedElement = NoElement], TRUE),
              "clickRefresh", NoQuery)

\* the timeouts of scrollPage and of the 'back' action: refreshElements()
DelayedRefreshFires(t) ==
  /\ t \in rtimers /\ t.kind \in {"scrollRefresh", "backRefresh"}
  /\ Callback(refreshElements(Fired(t), FALSE), t.kind, NoQuery)

\* the timeout of onNavigationComplete: refreshElements(true)
NavRefreshFires(t) ==
  /\ t \in rtimers /\ t.kind = "navRefresh"
  /\ Callback(refreshElements(Fired(t), TRUE), "navRefresh", NoQuery)

\* the 2 s timeout of _setNavigating(true)
NavigatingTimeoutFires(t) ==
  /\ t \in rtimers /\ t.kind = "navigating"
  /\ Callback([Fired(t) EXCEPT !.nav.isNavigating = FALSE], "navigating", NoQuery)

\* the embedded query of entry k of queries answers results
QueryResolves(k, results) ==
  /\ k \in DOMAIN queries
  /\ Callback(refreshResolved(Renderer, k, results), "resolve", queries[k])

\* the embedded query of entry k of queries fails
QueryRejects(k) ==
  /\ k \in DOMAIN queries
  /\ Callback(refreshRejected(Renderer, k), "reject", queries[k])

NextRenderer ==
  \/ \E action \in Actions : GamepadAction(action)
  \/ \E d \in AnalogDeltas : AnalogInput(d[1], d[2])
  \/ GamepadScroll(3, 2)
  \/ DebounceElapsed
  \/ \E url \in Urls : DidNavigate(url)
  \/ DidStopLoading
  \/ \E t \in rtimers : HideTimerFires(t)
  \/ \E t \in rtimers : ElementRefreshTick(t)
  \/ \E t \in rtimers : ClickRefreshFires(t)
  \/ \E t \in rtimers : DelayedRefreshFires(t)
  \/ \E t \in rtimers : NavRefreshFires(t)
  \/ \E t \in rtimers : NavigatingTimeoutFires(t)
  \/ \E k \in 1..MaxQueries, results \in QueryResults : QueryResolves(k, results)
  \/ \E k \in 1..MaxQueries : QueryRejects(k)

\* a wiki was opened from the landing page and a second page visited; the
\* cursor has timed out; the page shows the elements content
WikiOpenedOn(content) ==
  /\ cursor = [x |-> Px(400) \div 2, y |-> Px(300) \div 2, visible |-> FALSE,
               hideTimeout |-> 0, elementRefreshInterval |-> 0,
               currentHighlightedElement |-> NoElement,
               currentHighlightedLocal |-> "null"]
  /\ detector = [allClickableElements |-> << >>, highlightStyleInjected |-> FALSE]
  /\ queries = << >>
  /\ rtimers = {}
  /\ osk = [visible |-> FALSE, selectedIndex |-> 0, currentLayout |-> "letters",
            inputValue |-> << >>, targetInput |-> "null", sinceAnalogNav |-> 150]
  /\ page = [wikiActive |-> TRUE, searchDisabled |-> FALSE,
             innerWidth |-> Px(400), innerHeight |-> Px(300),
             dom |-> HostDom, webviewRect |-> WebviewRect,
             values |-> [f \in TextFields |-> << >>],
             marked |-> {}]
  /\ nav = [history |-> << 1, 2 >>, currentIndex |-> 1, isNavigating |-> FALSE,
            navigationTimeout |-> 0]
  /\ sent = << >>
  /\ pull = NoPull
  /\ web = [NoWeb EXCEPT !.content = content]
  /\ step = [kind |-> "init", arg |-> "", q |-> NoQuery, n |-> 0, was |-> Was,
             armed |-> FALSE]

WikiOpened == WikiOpenedOn(<< >>)

InitRenderer == MainInit /\ (RendererInit \/ WikiOpened)

SpecRenderer == InitRenderer /\ [][NextRenderer]_vars

----------------------------------------------------------------------------
(* The cursor over an embedded page whose elements change *)

\* the actions taken over the page
WebActions == {"cursor-up", "cursor-down-fast", "click", "home"}

\* the page shows other elements: it was scrolled, or its document changed
PageChanges(content) ==
  /\ page.wikiActive
  /\ content # web.content
  /\ Event([Renderer EXCEPT !.web.content = content,
                            !.web.selected = {n \in @ : \E i \in DOMAIN content : n = WebNode(content[i])}],
           "page", "")

\* entry k of queries answers what the page showed when the query ran
WebResolves(k) ==
  /\ k \in DOMAIN queries
  /\ Callback(refreshResolved(Renderer, k, queries[k].results), "resolve", queries[k])

NextWeb ==
  \/ \E action \in WebActions : GamepadAction(action)
  \/ \E content \in QueryResults : PageChanges(content)
  \/ \E t \in rtimers : HideTimerFires(t)
  \/ \E t \in rtimers : ElementRefreshTick(t)
  \/ \E t \in rtimers : ClickRefreshFires(t)
  \/ \E k \in 1..MaxQueries : WebResolves(k)
  \/ \E k \in 1..MaxQueries : QueryRejects(k)

InitWeb == MainInit /\ \E content \in QueryResults : WikiOpenedOn(content)

SpecWeb == InitWeb /\ [][NextWeb]_vars

----------------------------------------------------------------------------
(* The keyboard under the analog stick: handleAnalogNavigation and the     *)
(* clock it reads                                                           *)

\* data.dx, data.dy of 'analog-input', in px: each direction, a tie, the
\* trigger level itself, a small deflection and none
NavSamples ==
  { [arg |-> "6,2",   dx |-> Px(6),     dy |-> Px(2)],
    [arg |-> "-6,-5", dx |-> 0 - Px(6), dy |-> 0 - Px(5)],
    [arg |-> "-3,8",  dx |-> 0 - Px(3), dy |-> Px(8)],
    [arg |-> "2,-7",  dx |-> Px(2),     dy |-> 0 - Px(7)],
    [arg |-> "5,5",   dx |-> Px(5),     dy |-> Px(5)],
    [arg |-> "4,-4",  dx |-> Px(4),     dy |-> 0 - Px(4)],
    [arg |-> "3,-2",  dx |-> Px(3),     dy |-> 0 - Px(2)],
    [arg |-> "0,0",   dx |-> 0,         dy |-> 0] }

\* 'analog-input' while the keyboard is visible
AnalogNav(sample) ==
  /\ osk.visible
  /\ Commit(onAnalogInput(Renderer, sample.dx, sample.dy), "analog", sample.arg, NoQuery, 0)
  /\ UNCHANGED mainVars

\* Date.now() advances by 50 ms
ClockAdvances ==
  /\ osk.sinceAnalogNav < 150
  /\ Commit([Renderer EXCEPT !.osk.sinceAnalogNav = @ + 50], "clock", "", NoQuery, 0)
  /\ UNCHANGED mainVars

NextAnalog ==
  \/ KeysShow("search-input")
  \/ \E sample \in NavSamples : AnalogNav(sample)
  \/ ClockAdvances
  \/ KeysSwitchLayout

SpecAnalog == Init /\ [][NextAnalog]_vars

----------------------------------------------------------------------------
(* The routing of gamepad events in an opened wiki: a bounded number of    *)
(* events and timer callbacks, with the embedded queries answered as they  *)
(* come                                                                     *)

\* the actions: as the keyboard takes them, backspace or open, navigate or
\* move, type or click, cancel or back
RouteActions == {"search", "cursor-right-fast", "click", "back"}

\* entry k of queries answers that the page shows no elements
RouteResolves(k) ==
  /\ k \in DOMAIN queries
  /\ Commit(refreshResolved(Renderer, k, << >>), "resolve", "", queries[k], 0)
  /\ UNCHANGED mainVars

NextRoute ==
  \/ \E action \in RouteActions : GamepadAction(action)
  \/ \E d \in AnalogDeltas : AnalogInput(d[1], d[2])
  \/ GamepadScroll(3, 2)
  \/ DebounceElapsed
  \/ \E t \in rtimers : HideTimerFires(t)
  \/ \E t \in rtimers : ElementRefreshTick(t)
  \/ \E t \in rtimers : DelayedRefreshFires(t)
  \/ \E k \in 1..MaxQueries : RouteResolves(k)

InitRoute == MainInit /\ WikiOpened

SpecRoute == InitRoute /\ [][NextRoute]_vars

----------------------------------------------------------------------------
(* The history of an opened wiki: back and forward, the navigation events  *)
(* of the embedded surface and the timers they start                       *)

\* the click listener of the forward button
ForwardClicked == Event(goForward(Renderer).r, "forward", "")

\* 'did-navigate' for the entry that goBack() or goForward() assigned to
\* wiki.src
SrcNavigated ==
  /\ page.wikiActive /\ nav.isNavigating
  /\ Event(handleNavigate(Renderer, nav.history[nav.currentIndex + 1]),
           "src-navigated", "")

NextNav ==
  \/ GamepadAction("back")
  \/ ForwardClicked
  \/ SrcNavigated
  \/ \E url \in Urls : DidNavigate(url)
  \/ DidStopLoading
  \/ \E t \in rtimers : NavigatingTimeoutFires(t)
  \/ \E t \in rtimers : DelayedRefreshFires(t)
  \/ \E t \in rtimers : NavRefreshFires(t)
  \/ \E k \in 1..MaxQueries : RouteResolves(k)

InitNav == MainInit /\ WikiOpened

SpecNav == InitNav /\ [][NextNav]_vars

----------------------------------------------------------------------------
(* The renderer left alone: a bounded number of inputs, and the timers and *)
(* continuations they leave behind, which run whenever they are due       *)

\* the inputs of a behaviour
MaxInputs == 2

\* the embedded queries in flight at a time
MaxIdleQueries == 1

\* the inputs: a move, a click, the keyboard opened and closed
IdleActions == {"cursor-up", "click", "search", "back"}

\* 'gamepad-action'
IdleInput(action) ==
  /\ step.n < MaxInputs
  /\ Len(onGamepadAction(Renderer, action).queries) <= MaxIdleQueries
  /\ Commit(onGamepadAction(Renderer, action), "action", action, NoQuery, 1)
  /\ UNCHANGED mainVars

\* a timer callback or continuation leaves the renderer as r
Due(r, kind, q) ==
  /\ Len(r.queries) <= MaxIdleQueries \/ Len(r.queries) <= Len(queries)
  /\ Commit(r, kind, "", q, 0)
  /\ UNCHANGED mainVars

\* the timeout of _resetHideTimer expires
IdleHideTimerFires(t) ==
  /\ t \in rtimers /\ t.kind = "hide"
  /\ Due(hide(Fired(t)), "hideTimer", NoQuery)

\* the interval of _startElementRefresh
IdleElementRefreshTick(t) ==
  /\ t \in rtimers /\ t.kind = "elementRefresh"
  /\ Due(IF cursor.visible THEN refreshElements(Renderer, FALSE) ELSE Renderer,
         "elementRefresh", NoQuery)

\* the timeout of click() after a click in the embedded surface
IdleClickRefreshFires(t) ==
  /\ t \in rtimers /\ t.kind = "clickRefresh"
  /\ Due(refreshElements(
           [Fired(t) EXCEPT !.cursor.currentHighlightedElement = NoElement], TRUE),
         "clickRefresh", NoQuery)

\* the timeout of the 'back' action: refreshElements()
IdleBackRefreshFires(t) ==
  /\ t \in rtimers /\ t.kind = "backRefresh"
  /\ Due(refreshElements(Fired(t), FALSE), "backRefresh", NoQuery)

\* entry k of queries answers what the page showed when the query ran
IdleResolves(k) ==
  /\ k \in DOMAIN queries
  /\ Due(refreshResolved(Renderer, k, queries[k].results), "resolve", queries[k])

NextIdle ==
  \/ \E action \in IdleActions : IdleInput(action)
  \/ \E t \in rtimers : IdleHideTimerFires(t)
  \/ \E t \in rtimers : IdleElementRefreshTick(t)
  \/ \E t \in rtimers : IdleClickRefreshFires(t)
  \/ \E t \in rtimers : IdleBackRefreshFires(t)
  \/ \E k \in 1..MaxIdleQueries : IdleResolves(k)

\* on the landing page, or in a wiki whose page shows one link
InitIdle == MainInit /\ (RendererInit \/ WikiOpenedOn(<< PageLink(170, 104, 0) >>))

\* a timeout that was set and not cleared expires
SpecIdle ==
  InitIdle /\ [][NextIdle]_vars /\ WF_vars(\E t \in rtimers : IdleHideTimerFires(t))

----------------------------------------------------------------------------
(* A click in the embedded page followed by moves: a bounded number of     *)
(* inputs, with the timers and continuations running whenever they are due *)

NextClick ==
  \/ \E action \in {"cursor-up-fast", "click"} : GamepadAction(action)
  \/ \E t \in rtimers : IdleHideTimerFires(t)
  \/ \E t \in rtimers : IdleElementRefreshTick(t)
  \/ \E t \in rtimers : IdleClickRefreshFires(t)
  \/ \E k \in 1..MaxQueries : IdleResolves(k)

\* in a wiki whose page shows one link, under the cursor
InitClick == MainInit /\ WikiOpenedOn(<< PageLink(170, 104, 0) >>)

SpecClick == InitClick /\ [][NextClick]_vars

----------------------------------------------------------------------------
(* GamepadCursor.move from the positions, registries and windows below *)

\* the strides of the deltas of a move
MaxStride == 4

\* the deltas of a move, in units
MoveDeltas ==
  UNION {{<<Px(15) * k, Px(20) * k>>, <<0 - Px(20) * k, Px(15) * k>>, <<Px(25) * k, 0>>} :
           k \in 0..MaxStride}
  \cup {<<Px(200), Px(200)>>, <<0 - Px(200), 0 - Px(200)>>, <<Px(7), 0 - Px(3)>>}

\* innerWidth, innerHeight
Viewports == {<<Px(400), Px(300)>>, <<Px(500), Px(400)>>}

\* where the cursor is before the move: the middle and two corners
MovePositions(w) ==
  {<<w[1] \div 2, w[2] \div 2>>, <<Px(10), Px(10)>>, <<w[1] - Px(10), w[2] - Px(10)>>}

\* the elements tracked before the move, in a wiki: none; a link centred in
\* the small window; a box over the whole surface before that link; that
\* link before one further away
MoveRegistries ==
  LET el(rr) == WebviewElement(rr, WebviewRect, 1)
      link   == el(PageLink(170, 104, 1))
      far    == el(PageLink(300, 200, 2))
      whole  == el([left |-> 0, top |-> 0, width |-> Px(400), height |-> Px(264),
                    index |-> 0])
  IN { << >>, << link >>, << whole, link >>, << link, far >> }

InitMove ==
  /\ MainInit
  /\ \E w \in Viewports, els \in MoveRegistries, wikiActive \in BOOLEAN :
       \E pos \in MovePositions(w) :
         RendererAt(w[1], w[2], pos[1], pos[2], els, wikiActive)

\* gamepadCursor.move(dx, dy)
MoveOnce(dx, dy) ==
  /\ step.kind = "init"
  /\ Commit(move(Renderer, dx, dy), "move", "", NoQuery, 0)
  /\ UNCHANGED mainVars

NextMove == \E d \in MoveDeltas : MoveOnce(d[1], d[2])

SpecMove == InitMove /\ [][NextMove]_vars

----------------------------------------------------------------------------
(* Properties *)

Count(seq, e) == Cardinality({i \in DOMAIN seq : seq[i] = e})

Action(name) == [ch |-> "gamepad-action", arg |-> name, x |-> 0, y |-> 0]

CloseApp == [ch |-> "window", arg |-> "closeApp", x |-> 0, y |-> 0]

ToggleVisibility == [ch |-> "window", arg |-> "toggleVisibility", x |-> 0, y |-> 0]

\* the named action of each single-action button
NamedAction ==
  << <<BUTTONS.A, "click">>, <<BUTTONS.B, "back">>, <<BUTTONS.Y, "home">>,
     <<BUTTONS.X, "search">>, <<BUTTONS.LEFT_SHOULDER, "page-up">>,
     <<BUTTONS.RIGHT_SHOULDER, "page-down">>, <<BUTTONS.START, "start">> >>

IsNamed(e) ==
  e.ch = "gamepad-action" /\ \E i \in DOMAIN NamedAction : e.arg = NamedAction[i][2]

IsCursor(e) ==
  e.ch = "gamepad-action"
  /\ e.arg \in {"cursor-up", "cursor-down", "cursor-left", "cursor-right"}

IsAnalog(e) == e.ch \in {"analog-input", "gamepad-scroll"}

\* nothing of what the last step emitted went to the UI layer
NothingToUI ==
  \A i \in DOMAIN emitted :
    ~IsNamed(emitted[i]) /\ ~IsCursor(emitted[i]) /\ ~IsAnalog(emitted[i])

\* in the step taken, a frame was processed (under FOREGROUND, visible)
FrameStep == tick'.kind = "poll"

ForegroundFrameStep == FrameStep /\ ~tick'.bg /\ tick'.vis

\* in the step taken, the frame shows the button (the combo) newly held
PressedNow(b) == b \in shown' /\ b \notin shown

ComboNow(b1, b2) == {b1, b2} \subseteq shown' /\ ~({b1, b2} \subseteq shown)

QuitNow == ComboNow(BUTTONS.BACK, BUTTONS.B)

ToggleNow == ComboNow(BUTTONS.BACK, BUTTONS.START)

(* C1, as claimed: in a frame processed under FOREGROUND with the window   *)
(* visible, each single-action button sends its named action once if its   *)
(* bit went 0 to 1 in that frame and not at all otherwise.                 *)
C1_EveryPressEmits ==
  [][ForegroundFrameStep =>
       \A i \in DOMAIN NamedAction :
         Count(emitted', Action(NamedAction[i][2]))
           = IF PressedNow(NamedAction[i][1]) THEN 1 ELSE 0]_vars

(* C1, amended: the named action is sent once on the frame where the bit   *)
(* goes 0 to 1 unless that frame newly completes Back+B or Back+Start, in  *)
(* which case the press sends nothing; it is never sent on a frame where   *)
(* the bit did not go 0 to 1.                                              *)
C1_PressEmitsOnceUnlessCombo ==
  [][ForegroundFrameStep =>
       \A i \in DOMAIN NamedAction :
         Count(emitted', Action(NamedAction[i][2]))
           = IF PressedNow(NamedAction[i][1]) /\ ~QuitNow /\ ~ToggleNow
               THEN 1 ELSE 0]_vars

\* a foreground frame that sent click and back, each once
C1_Witness ==
  /\ tick.kind = "poll" /\ ~tick.bg /\ tick.vis
  /\ {BUTTONS.A, BUTTONS.B} \subseteq shown
  /\ emitted = << Action("click"), Action("back") >>

(* C2: a frame triggers the quit action once if it shows Back+B held and   *)
(* the frame before it did not, and not at all otherwise: a hold of the    *)
(* combo over consecutive frames quits once, on its first frame.           *)
C2_QuitOncePerHold ==
  [][FrameStep => Count(emitted', CloseApp) = IF QuitNow THEN 1 ELSE 0]_vars

\* a frame with Back+B still held that triggered nothing
C2_Witness ==
  /\ tick.kind = "poll"
  /\ {BUTTONS.BACK, BUTTONS.B} \subseteq shown
  /\ emitted = << >>

(* C3, as claimed: a frame in which Back+Start becomes newly held triggers *)
(* exactly one visibility toggle and no single-button action, whatever     *)
(* other edges it contains.                                                *)
C3_ToggleWhateverElse ==
  [][FrameStep /\ ToggleNow =>
       /\ Count(emitted', ToggleVisibility) = 1
       /\ \A i \in DOMAIN emitted' : ~IsNamed(emitted'[i])]_vars

(* C3, amended: such a frame triggers no single-button action, and exactly *)
(* one visibility toggle unless Back+B becomes newly held in the same      *)
(* frame; then it triggers the quit action once and no toggle.             *)
C3_ToggleUnlessQuit ==
  [][FrameStep /\ ToggleNow =>
       /\ \A i \in DOMAIN emitted' : ~IsNamed(emitted'[i])
       /\ Count(emitted', ToggleVisibility) = IF QuitNow THEN 0 ELSE 1
       /\ Count(emitted', CloseApp) = IF QuitNow THEN 1 ELSE 0]_vars

\* a frame with Back+Start and A held that triggered the toggle alone
C3_Witness ==
  /\ tick.kind = "poll"
  /\ {BUTTONS.BACK, BUTTONS.START, BUTTONS.A} \subseteq shown
  /\ emitted = << ToggleVisibility >>

C5_BackgroundOnlyToggles ==
  tick.kind = "poll" /\ tick.bg =>
    \A i \in DOMAIN emitted : emitted[i] = ToggleVisibility

(* C6: while the capture mode is BACKGROUND, no step (poll tick or repeat  *)
(* timer) sends a named action, a cursor-direction action or an analog     *)
(* cursor or scroll event.                                                 *)
C6_BackgroundSilent == backgroundMode => NothingToUI

\* a frame with the d-pad and A held, processed under BACKGROUND after the
\* repeats were cleared
C6_Witness ==
  /\ backgroundMode /\ tick.kind = "poll" /\ tick.bg
  /\ {BUTTONS.DPAD_UP, BUTTONS.A} \subseteq shown
  /\ timers = {}

(* C7: while the window reports not visible, no step (poll tick or repeat  *)
(* timer) sends a named action, a cursor-direction action or an analog     *)
(* cursor or scroll event.                                                 *)
C7_HiddenSilent == ~winVisible => NothingToUI

\* a frame with the d-pad and A held, processed under FOREGROUND with the
\* window hidden
C7_Witness ==
  /\ ~winVisible /\ ~backgroundMode /\ tick.kind = "poll" /\ ~tick.bg
  /\ {BUTTONS.DPAD_UP, BUTTONS.A} \subseteq shown

(* C8: for raw axis values v and w and the configured threshold D,         *)
(* applyDeadzone(v) is 0 when |v| < D and when |v| = D, v - D for larger   *)
(* positive v and v + D for larger negative v; it never has the opposite   *)
(* sign of v, is monotonic (v <= w gives applyDeadzone(v) <=               *)
(* applyDeadzone(w)) and does not jump (neighbouring inputs give outputs   *)
(* at most 1 apart).                                                       *)
DeadzoneOf(v, out) ==
  LET D == ANALOG_CONFIG.DEADZONE
  IN /\ Abs(v) < D => out = 0
     /\ Abs(v) = D => out = 0
     /\ v >= D => out = v - D
     /\ v <= 0 - D => out = v + D
     /\ out > 0 => v > 0
     /\ out < 0 => v < 0

C8_Deadzone ==
  tick.kind = "applyDeadzone" =>
    /\ DeadzoneOf(dz[1], dz[3])
    /\ DeadzoneOf(dz[2], dz[4])
    /\ dz[1] <= dz[2] => dz[3] <= dz[4]
    /\ Abs(dz[1] - dz[2]) <= 1 => Abs(dz[3] - dz[4]) <= 1

\* the threshold and its neighbour: 0 and 1
C8_Witness ==
  /\ tick.kind = "applyDeadzone"
  /\ dz[1] = ANALOG_CONFIG.DEADZONE /\ dz[3] = 0
  /\ dz[2] = ANALOG_CONFIG.DEADZONE + 1 /\ dz[4] = 1

(* C9: after any sequence of startRepeat, clearRepeat, clearAll and timer  *)
(* firings, each button has at most one live timer (a pending delay or a   *)
(* running interval), every live timer is one the handler still holds in   *)
(* repeatTimers, and right after startRepeat the button has exactly one.   *)
LiveTimers(button) == {t \in timers : t.button = button}

C9_OneRepeatPerButton ==
  /\ \A b \in DpadButtons : Cardinality(LiveTimers(b)) <= 1
  /\ \A t \in timers : \E e \in repeatTimers : e.id = t.id
  /\ tick.kind = "startRepeat" => Cardinality(LiveTimers(tick.button)) = 1

\* startRepeat on a button whose repeat was live: one timer, the new delay
C9_Witness ==
  /\ tick.kind = "startRepeat"
  /\ tick.noted = {tick.button}
  /\ Cardinality(LiveTimers(tick.button)) = 1
  /\ \A t \in LiveTimers(tick.button) : t.kind = "timeout"

(* C10: once a frame showing a d-pad button released has been dispatched   *)
(* (FOREGROUND, window visible) while the delay of its press was pending,  *)
(* no timer of that press is live and no callback of that press runs.      *)
C10_EarlyReleaseCancels ==
  /\ \A t \in timers : ~t.released
  /\ tick.kind \in {"delay", "interval"} => tick.noted = {}
  /\ tick.kind = "poll" => \A b \in tick.noted : LiveTimers(b) = {}

\* a frame dispatched under FOREGROUND, visible, that released a d-pad
\* button before its delay elapsed
C10_Witness ==
  /\ tick.kind = "poll" /\ ~tick.bg /\ tick.vis
  /\ tick.noted # {}
  /\ \A b \in tick.noted : b \notin shown /\ LiveTimers(b) = {}

(* C11: after move(dx, dy), whatever the delta and the tracked elements,   *)
(* the cursor is at 10 <= x <= innerWidth - 10 and 10 <= y <= innerHeight  *)
(* - 10.                                                                   *)
C11_MoveStaysInWindow ==
  step.kind = "move" =>
    /\ Px(10) <= cursor.x /\ cursor.x <= page.innerWidth - Px(10)
    /\ Px(10) <= cursor.y /\ cursor.y <= page.innerHeight - Px(10)

\* a move whose delta and attraction led beyond the right and the lower
\* edge, and a cursor left on the corner
C11_Witness ==
  /\ step.kind = "move"
  /\ pull.mx + pull.ax > page.innerWidth - Px(10)
  /\ pull.my + pull.ay > page.innerHeight - Px(10)
  /\ cursor.x = page.innerWidth - Px(10)
  /\ cursor.y = page.innerHeight - Px(10)

(* C12: the displacement that the attraction adds in a move is never       *)
(* longer than SNAP_STRENGTH x CURSOR_SPEED; it is that maximum times      *)
(* (1 - distance / SNAP_RADIUS), up to the rounding of a length, when the  *)
(* candidate's centre is at a distance 0 < distance < SNAP_RADIUS; it is   *)
(* zero when there is no candidate or its centre is at distance 0 or at    *)
(* SNAP_RADIUS or beyond.                                                  *)
MaxAttraction ==
  (Px(CURSOR_CONFIG.CURSOR_SPEED) * CURSOR_CONFIG.SNAP_STRENGTH.num)
    \div CURSOR_CONFIG.SNAP_STRENGTH.den

C12_AttractionBounded ==
  step.kind = "move" =>
    LET radius == Px(CURSOR_CONFIG.SNAP_RADIUS)
        d2     == Dist2(pull.cand, pull.mx, pull.my)
        len2   == pull.ax * pull.ax + pull.ay * pull.ay
    IN /\ len2 <= MaxAttraction * MaxAttraction
       /\ IF pull.cand # NoElement /\ 0 < d2 /\ d2 < radius * radius
            THEN LET distance == ISqrt(d2)
                     expected == (MaxAttraction * (radius - distance)) \div radius
                     scale    == MaxAttraction * (radius - distance)
                     exact    ==
                       /\ distance * distance = d2
                       /\ ((pull.cand.centerX - pull.mx) * scale) % (distance * radius) = 0
                       /\ ((pull.cand.centerY - pull.my) * scale) % (distance * radius) = 0
                 IN /\ pull.applied
                    /\ Abs(ISqrt(len2) - expected) <= 2
                    /\ exact => /\ ISqrt(len2) * ISqrt(len2) = len2
                                /\ ISqrt(len2) * radius = scale
            ELSE pull.ax = 0 /\ pull.ay = 0 /\ ~pull.applied

\* a move that ended 25 px from the candidate's centre (20 across, 15 up)
\* and was pulled by three quarters of the maximum
C12_Witness ==
  /\ step.kind = "move"
  /\ pull.cand # NoElement /\ pull.applied
  /\ pull.cand.centerX - pull.mx = Px(20) /\ pull.cand.centerY - pull.my = 0 - Px(15)
  /\ pull.ax * pull.ax + pull.ay * pull.ay
       = ((3 * MaxAttraction) \div 4) * ((3 * MaxAttraction) \div 4)
  /\ pull.ax > 0 /\ pull.ay < 0

(* C13: findNearest(x, y, maxRadius) answers an element whose box contains *)
(* (x, y) if any tracked element's box does, even when the centre of       *)
(* another element is closer; else an element whose centre is nearest      *)
(* among those nearer than maxRadius; else none.                           *)
Contains(el, x, y) ==
  x >= el.left /\ x <= el.right /\ y >= el.top /\ y <= el.bottom

C13_NearestPrefersContaining ==
  step.kind = "move" =>
    LET els    == Range(detector.allClickableElements)
        x      == pull.mx
        y      == pull.my
        radius == Px(CURSOR_CONFIG.SNAP_RADIUS)
        near   == {el \in els : Dist2(el, x, y) < radius * radius}
    IN IF \E el \in els : Contains(el, x, y)
         THEN pull.cand \in els /\ Contains(pull.cand, x, y)
       ELSE IF near # {}
         THEN /\ pull.cand \in near
              /\ \A el \in near : Dist2(pull.cand, x, y) <= Dist2(el, x, y)
       ELSE pull.cand = NoElement

\* the answer is a box that contains the position although the centre of
\* another tracked element is closer
C13_Witness ==
  /\ step.kind = "move"
  /\ pull.cand # NoElement
  /\ Contains(pull.cand, pull.mx, pull.my)
  /\ \E el \in Range(detector.allClickableElements) :
       /\ ~Contains(el, pull.mx, pull.my)
       /\ Dist2(el, pull.mx, pull.my) < Dist2(pull.cand, pull.mx, pull.my)

(* C15: navigate(direction) moves the selection by exactly one column     *)
(* (left, right: same row) or one row (up, down: same column), wrapping    *)
(* around on both axes, for every layout and selected index; and after any *)
(* sequence of show, navigate and switchLayout the selected index is       *)
(* within 0 .. layoutLength - 1.                                           *)
SelectedInRange ==
  osk.selectedIndex \in 0..(Len(LAYOUTS[osk.currentLayout]) - 1)

NavigatedByOne ==
  LET n    == Len(LAYOUTS[osk.currentLayout])
      rows == n \div COLS
      row  == osk.selectedIndex \div COLS
      col  == osk.selectedIndex % COLS
      row2 == osk'.selectedIndex \div COLS
      col2 == osk'.selectedIndex % COLS
  IN /\ osk'.currentLayout = osk.currentLayout
     /\ step'.arg = "right" =>
          row2 = row /\ col2 = (IF col = COLS - 1 THEN 0 ELSE col + 1)
     /\ step'.arg = "left" =>
          row2 = row /\ col2 = (IF col = 0 THEN COLS - 1 ELSE col - 1)
     /\ step'.arg = "down" =>
          col2 = col /\ row2 = (IF row = rows - 1 THEN 0 ELSE row + 1)
     /\ step'.arg = "up" =>
          col2 = col /\ row2 = (IF row = 0 THEN rows - 1 ELSE row - 1)

C15_NavigateWraps ==
  /\ []SelectedInRange
  /\ [][step'.kind = "navigate" => NavigatedByOne]_vars

\* 'right' on index 9 (the last column of the first row) gave index 0
C15_Witness ==
  /\ step.kind = "navigate" /\ step.arg = "right"
  /\ step.was.osk.selectedIndex = 9
  /\ osk.selectedIndex = 0

(* C16: hiding the keyboard with submit writes the buffer into the target  *)
(* field and calls the completion hook exactly once, with that field and   *)
(* the final text; hiding with cancel leaves the target field's value as   *)
(* it was and does not call the hook; either way the keyboard ends not     *)
(* visible and without a target field.                                     *)
SubmitHooks ==
  SelectSeq(sent, LAMBDA fx : fx.to = "hook" /\ fx.cmd = "onSubmit")

HiddenAsAsked ==
  LET target == osk.targetInput
      buffer == osk.inputValue
  IN /\ ~osk'.visible
     /\ osk'.targetInput = "null"
     /\ (step'.arg = "submit" /\ target # "null") =>
          /\ page'.values = [page.values EXCEPT ![target] = buffer]
          /\ SubmitHooks' = << Fx("hook", "onSubmit", target, 0, 0, buffer) >>
     /\ (step'.arg = "cancel" \/ target = "null") =>
          /\ page'.values = page.values
          /\ SubmitHooks' = << >>

C16_HideSubmitsOrCancels ==
  [][step'.kind = "hide" => HiddenAsAsked]_vars

\* a submit that replaced the empty search field by the typed "q", and told
\* the hook so
C16_Witness ==
  /\ step.kind = "hide" /\ step.arg = "submit"
  /\ step.was.osk.visible
  /\ step.was.osk.targetInput = "search-input"
  /\ step.was.osk.inputValue = << "q" >>
  /\ step.was.values["search-input"] = << >>
  /\ page.values["search-input"] = << "q" >>
  /\ SubmitHooks = << Fx("hook", "onSubmit", "search-input", 0, 0, << "q" >>) >>
  /\ ~osk.visible /\ osk.targetInput = "null"

(* C17: whenever the on-screen keyboard is visible the virtual cursor is   *)
(* not visible and no element is highlighted, whatever gamepad action,     *)
(* analog event, timer or refresh completion arrives; and the step that    *)
(* hides the keyboard (submit or cancel) leaves the cursor visible.        *)
KeyboardHidesCursor ==
  osk.visible =>
    /\ ~cursor.visible
    /\ cursor.currentHighlightedElement = NoElement
    /\ cursor.currentHighlightedLocal = "null"
    /\ page.marked = {}

C17_KeyboardExcludesCursor ==
  /\ []KeyboardHidesCursor
  /\ [][(osk.visible /\ ~osk'.visible) => cursor'.visible]_vars

\* a refresh completed while the keyboard was shown, with an element under
\* the hidden cursor, and highlighted nothing
C17_Witness ==
  /\ step.kind = "resolve"
  /\ step.was.osk.visible /\ osk.visible
  /\ ~cursor.visible
  /\ \E el \in Range(detector.allClickableElements) :
       el.isWebviewElement /\ Contains(el, cursor.x, cursor.y)
  /\ cursor.currentHighlightedElement = NoElement

(* C18: when the embedded query of a refresh fails, the registry then      *)
(* holds the host elements that refresh scanned followed by the embedded   *)
(* elements that were tracked when it was issued, and the completion       *)
(* callback has run: a visible cursor highlights what is nearest to it in  *)
(* that registry.                                                          *)
C18_FailedQueryKeepsEmbedded ==
  step.kind = "reject" =>
    /\ detector.allClickableElements =
         step.q.localElements \o step.q.existingWebviewElements
    /\ cursor.visible =>
         cursor.currentHighlightedElement = findNearestElement(Renderer)

\* a failed query left the embedded link that was tracked before it in the
\* registry, and the visible cursor highlights that link
C18_Witness ==
  /\ step.kind = "reject"
  /\ step.q.existingWebviewElements # << >>
  /\ detector.allClickableElements =
       step.q.localElements \o step.q.existingWebviewElements
  /\ cursor.visible
  /\ cursor.currentHighlightedElement \in Range(step.q.existingWebviewElements)

(* C20: the continuation of a refresh that runs after reset() was called,  *)
(* or after the result of a refresh issued later has been applied, leaves  *)
(* the registry's elements as they were.                                   *)
C20_StaleResultDiscarded ==
  [][(step'.kind \in {"resolve", "reject"}
        /\ (step'.q.afterReset \/ step'.q.superseded))
       => detector'.allClickableElements = detector.allClickableElements]_vars

(* C21: a click or highlight command sent into the embedded page with an   *)
(* index acts on the element for which the host was given that index, or   *)
(* on nothing, never on another element.                                   *)
IssuedFor(el) ==
  <<el.left - page.webviewRect.left, el.top - page.webviewRect.top>>

C21_IndexActsOnIssuedElement ==
  [][/\ \A n \in web'.clicked :
          /\ cursor.currentHighlightedElement.isWebviewElement
          /\ n = IssuedFor(cursor.currentHighlightedElement)
     /\ \A n \in web'.selected \ web.selected :
          /\ cursor'.currentHighlightedElement.isWebviewElement
          /\ n = IssuedFor(cursor'.currentHighlightedElement)]_vars

(* C22: hiding the on-screen keyboard, by submit or by cancel, leaves no    *)
(* d-pad repeat timer and no cursor auto-hide timer pending.                *)
C22_HideLeavesNoTimer ==
  step.kind = "hide" =>
    /\ timers = {}
    /\ \A t \in rtimers : t.kind # "hide"

(* C23: while the cursor is visible each move, each click and each         *)
(* registry refresh re-arms the auto-hide timer, so that the pending one is *)
(* the one armed by the most recent of them; at most one auto-hide timer is *)
(* pending at any time.                                                     *)
HideTimers(ts) == {t \in ts : t.kind = "hide"}

CursorMoves == {"cursor-up", "cursor-down-fast", "cursor-left", "cursor-right-fast"}

RefreshKinds ==
  {"elementRefresh", "clickRefresh", "scrollRefresh", "backRefresh", "navRefresh"}

\* the step is the 'click' action on a visible cursor and ran click()
\* (on a text field the action opens the keyboard instead)
ClickCalled ==
  cursor.visible /\ step'.kind = "action" /\ step'.arg = "click" /\ ~osk'.visible

\* the timer the step armed is the only one pending
ArmedIsPending ==
  step'.armed => HideTimers(rtimers') = {[id |-> cursor'.hideTimeout, kind |-> "hide"]}

C23_MoveClickRefreshRearm ==
  [][/\ Cardinality(HideTimers(rtimers')) <= 1
     /\ ArmedIsPending
     /\ (cursor.visible /\ step'.kind = "action" /\ step'.arg \in CursorMoves)
          => step'.armed
     /\ ClickCalled => step'.armed
     /\ (cursor.visible /\ step'.kind = "analog") => step'.armed
     /\ (cursor.visible /\ step'.kind \in RefreshKinds) => step'.armed]_vars

\* C23 as the code has it: each move and each click on a highlighted
\* element re-arms the timer; at most one auto-hide timer is pending
C23_MoveClickRearm ==
  /\ [](Cardinality(HideTimers(rtimers)) <= 1)
  /\ [][/\ ArmedIsPending
        /\ (cursor.visible /\ step'.kind = "action" /\ step'.arg \in CursorMoves)
             => step'.armed
        /\ (ClickCalled /\ cursor.currentHighlightedElement # NoElement) => step'.armed
        /\ (cursor.visible /\ step'.kind = "analog") => step'.armed]_vars

\* a click on the highlighted element, with the cursor visible, has armed
\* the timer anew
C23_Witness ==
  /\ step.kind = "action" /\ step.arg = "click"
  /\ step.was.cursorVisible
  /\ step.armed
  /\ HideTimers(rtimers) = {[id |-> cursor.hideTimeout, kind |-> "hide"]}

(* C24: if the cursor is visible and no further move, click or show        *)
(* occurs, the auto-hide timer eventually expires; after expiry the cursor  *)
(* is hidden, no element is highlighted on either surface and the periodic  *)
(* element-refresh timer is stopped.                                        *)
HiddenAndIdle ==
  /\ ~cursor.visible
  /\ cursor.currentHighlightedElement = NoElement
  /\ page.marked = {} /\ web.selected = {}
  /\ cursor.elementRefreshInterval = 0
  /\ \A t \in rtimers : t.kind # "elementRefresh"

\* a behaviour of SpecIdle has finitely many inputs: after the last of them
\* no further move, click or show occurs
C24_IdleCursorHides ==
  /\ [](step.kind = "hideTimer" => HiddenAndIdle)
  /\ cursor.visible ~> HiddenAndIdle

\* the timer has expired on a cursor that highlighted an element of the
\* embedded page
C24_Witness ==
  /\ step.kind = "hideTimer"
  /\ step.was.cursorVisible
  /\ step.was.selected # {}
  /\ HiddenAndIdle

(* C26: a gamepad scroll event {scrollY} received while a wiki is active   *)
(* and the keyboard is hidden produces a scroll command to the embedded     *)
(* page whose vertical delta is round(scrollY x SCROLL_SPEED x 5) and whose *)
(* horizontal delta is 0 (the scroll events of the model carry scrollY =    *)
(* 3 / 2).                                                                  *)
C26_ScrollIsVertical ==
  [][(step'.kind = "scroll" /\ page.wikiActive /\ ~osk.visible)
       => sent' = << Fx("webview", "scroll", "", 0,
                        Round(3 * CURSOR_CONFIG.SCROLL_SPEED * 5, 2), << >>) >>]_vars

(* C27: every scroll operation that routes a delta to a surface, by        *)
(* scrollPage or by scrollWithGamepad, schedules a registry refresh.        *)
Scrolled(fxs) == \E i \in DOMAIN fxs : fxs[i].cmd \in {"scroll", "scrollBy"}

C27_ScrollSchedulesRefresh ==
  [][Scrolled(sent') => \E t \in rtimers' \ rtimers : t.kind = "scrollRefresh"]_vars

(* C28: click() with nothing highlighted is a no-op: it sends no click,    *)
(* focus or command to either surface, does not show the cursor, does not   *)
(* re-arm the auto-hide timer and schedules no refresh.                     *)
C28_ClickOnNothingIsNoOp ==
  [][(step'.kind = "action" /\ step'.arg = "click" /\ ~osk.visible
        /\ cursor.currentHighlightedElement = NoElement)
       => /\ sent' = << >>
          /\ web'.clicked = {}
          /\ ~step'.armed
          /\ <<cursor, detector, queries, rtimers, osk, page, nav>>' =
               <<cursor, detector, queries, rtimers, osk, page, nav>>]_vars

\* the 'click' action has run on a hidden cursor
C28_Witness ==
  /\ step.kind = "action" /\ step.arg = "click"
  /\ ~step.was.cursorVisible /\ ~step.was.osk.visible
  /\ ~cursor.visible
  /\ step.n > 1

(* C29: every gamepad action, analog-input event and scroll event is       *)
(* consumed by exactly one of the keyboard navigator and the cursor engine: *)
(* while the keyboard is visible no event moves the cursor, clicks, scrolls *)
(* a surface or triggers back/home, and while it is hidden no event changes *)
(* the keyboard's selection, layout or buffer.                              *)
GamepadEvent == step'.kind \in {"action", "analog", "scroll"}

\* the step left the cursor where it was, clicked and scrolled nothing and
\* went neither back nor home
CursorUntouched ==
  /\ cursor'.x = cursor.x /\ cursor'.y = cursor.y
  /\ \A i \in DOMAIN sent' :
       sent'[i].cmd \notin {"click", "focus", "scroll", "scrollBy", "src", "showLandingPage"}
  /\ web'.clicked = {}
  /\ nav' = nav
  /\ page'.wikiActive = page.wikiActive

KeyboardUntouched ==
  /\ osk'.selectedIndex = osk.selectedIndex
  /\ osk'.currentLayout = osk.currentLayout
  /\ osk'.inputValue = osk.inputValue

C29_OneConsumer ==
  [][GamepadEvent =>
       /\ osk.visible => CursorUntouched
       /\ ~osk.visible => KeyboardUntouched]_vars

\* C29 as the code has it: an event taken while the keyboard is hidden
\* changes its selection or buffer only by opening it, on the first key and
\* with the text of the field
C29_OneConsumerOrOpens ==
  [][GamepadEvent =>
       /\ osk.visible => CursorUntouched
       /\ (~osk.visible /\ ~osk'.visible) => KeyboardUntouched
       /\ (~osk.visible /\ osk'.visible) =>
            /\ step'.kind = "action" /\ step'.arg \in {"search", "click"}
            /\ osk'.selectedIndex = 0
            /\ osk'.inputValue = page.values[osk'.targetInput]
            /\ osk'.currentLayout = osk.currentLayout]_vars

\* an analog event moved the selection of the visible keyboard and left the
\* cursor alone
C29_Witness ==
  /\ step.kind = "analog"
  /\ step.was.osk.visible
  /\ osk.selectedIndex # step.was.osk.selectedIndex
  /\ ~cursor.visible

(* C30: handleAnalogNavigation accepts a move only if at least 150 ms have *)
(* elapsed since the previously accepted move and |dx| or |dy| exceeds the  *)
(* trigger level; any two accepted moves are at least that interval apart;  *)
(* an accepted move navigates along the axis of larger magnitude; a         *)
(* rejected call changes neither the selection nor the debounce timestamp.  *)
Accepted(sample) ==
  /\ osk.sinceAnalogNav >= 150
  /\ Abs(sample.dx) > Px(4) \/ Abs(sample.dy) > Px(4)

\* the directions along the axis of larger magnitude (either axis on a tie)
LargerAxis(sample) ==
  {direction \in Directions :
     \/ /\ Abs(sample.dx) >= Abs(sample.dy)
        /\ direction = IF sample.dx > 0 THEN "right" ELSE "left"
     \/ /\ Abs(sample.dy) >= Abs(sample.dx)
        /\ direction = IF sample.dy > 0 THEN "down" ELSE "up"}

C30_AnalogNavigationDebounced ==
  [][\A sample \in NavSamples :
       (step'.kind = "analog" /\ step'.arg = sample.arg) =>
          IF Accepted(sample)
            THEN /\ osk'.sinceAnalogNav = 0
                 /\ \E direction \in LargerAxis(sample) :
                      osk'.selectedIndex = navigate(Renderer, direction).osk.selectedIndex
            ELSE osk' = osk]_vars

\* a deflection beyond the trigger level was rejected 100 ms after an
\* accepted one
C30_Witness ==
  /\ step.kind = "analog" /\ step.arg = "-3,8"
  /\ step.was.osk.visible
  /\ step.was.osk.sinceAnalogNav = 100
  /\ osk = step.was.osk
  /\ osk.selectedIndex # 0

(* C25: at most one element of the host page and the embedded page carries *)
(* the highlight marker, and hide() and reset() leave none marked.         *)
Marked == Cardinality(page.marked) + Cardinality(web.selected)

SubThresholdScroll ==
  2 * Abs(dz[4]) * 15 <= ANALOG_CONFIG.STICK_MAX - ANALOG_CONFIG.DEADZONE

C14_SubThresholdScrollDropped ==
  tick.kind = "poll" /\ SubThresholdScroll =>
    \A i \in DOMAIN emitted : emitted[i].ch # "gamepad-scroll"

\* a frame dispatched under FOREGROUND, visible, whose right stick is beyond
\* the analog threshold on both axes and whose scroll is below 0.5
C14_Witness ==
  /\ tick.kind = "poll" /\ ~tick.bg /\ tick.vis /\ ~backgroundMode /\ winVisible
  /\ Abs(dz[3]) > 100 /\ Abs(dz[4]) > 100
  /\ SubThresholdScroll
  /\ emitted = << >>

(* C19: setBackgroundMode(true) leaves no repeat timer live (neither a     *)
(* pending delay nor a running interval) and no handle in repeatTimers; no *)
(* timer is live while the mode is BACKGROUND, and the first timer to be   *)
(* live again is started by a frame that is dispatched under FOREGROUND    *)
(* and shows its d-pad button newly pressed.                               *)
C19_BackgroundCancelsRepeats ==
  [][/\ tick'.kind \in {"hide", "blur"} => timers' = {} /\ repeatTimers' = {}
     /\ backgroundMode' => timers' = {}
     /\ timers = {} /\ timers' # {} =>
          /\ tick'.kind = "poll" /\ ~backgroundMode'
          /\ \A t \in timers' : t.button \in shown' \ shown]_vars

\* the window lost the focus while a delay and an interval were live
C19_Witness ==
  /\ tick.kind = "blur" /\ backgroundMode
  /\ Cardinality(tick.noted) = 2
  /\ timers = {} /\ repeatTimers = {}

(* C31, as claimed: within one poll tick every single-button named action *)
(* is emitted before any analog cursor or scroll event of that tick, and   *)
(* the named actions of a frame are one per newly pressed single-action    *)
(* button, in the order click, back, home, search, page-up, page-down,     *)
(* start.                                                                  *)
NamedOf(seq) == SelectSeq(seq, IsNamed)

\* the named actions of the buttons the frame shows newly pressed, in the
\* fixed order
EdgeActions ==
  LET edges == SelectSeq(NamedAction, LAMBDA na : PressedNow(na[1]))
  IN [i \in 1..Len(edges) |-> Action(edges[i][2])]

NamedBeforeAnalog(seq) ==
  \A i, j \in DOMAIN seq : IsNamed(seq[i]) /\ IsAnalog(seq[j]) => i < j

C31_OnePerEdgeInOrder ==
  [][ForegroundFrameStep =>
       /\ NamedBeforeAnalog(emitted')
       /\ NamedOf(emitted') = EdgeActions]_vars

(* C31, amended: within one poll tick every single-button named action is  *)
(* emitted before any analog cursor or scroll event of that tick, and a    *)
(* frame processed under FOREGROUND with the window visible emits one      *)
(* action per newly pressed single-action button in the order click, back, *)
(* home, search, page-up, page-down, start, unless the frame newly         *)
(* completes Back+B or Back+Start; then it emits no single-button action.  *)
C31_OnePerEdgeInOrderUnlessCombo ==
  [][FrameStep =>
       /\ NamedBeforeAnalog(emitted')
       /\ ForegroundFrameStep =>
            NamedOf(emitted') = IF QuitNow \/ ToggleNow THEN << >> ELSE EdgeActions]_vars

\* a frame that sent back, search and start in that order and then the
\* cursor and scroll events of its sticks
C31_Witness ==
  /\ tick.kind = "poll" /\ ~tick.bg /\ tick.vis
  /\ Len(emitted) = 5
  /\ NamedOf(emitted) = << Action("back"), Action("search"), Action("start") >>
  /\ IsAnalog(emitted[4]) /\ IsAnalog(emitted[5])

(* C32: startRepeat(button, callback) does not invoke the callback; the   *)
(* callback runs once when the initial delay elapses, which starts the     *)
(* interval, and once per interval tick; after clearRepeat(button) or      *)
(* clearAll() no timer of the button is live, and the callback of a button *)
(* runs only from a timer that startRepeat or the elapsed delay started    *)
(* and no clear has cancelled; clearRepeat on a button with no running     *)
(* repeat changes nothing, and clearRepeat leaves the repeats of the other *)
(* buttons as they are.                                                    *)
Invoked(button) == Count(emitted', dpadCallback(button)[1])

\* the live timers of the button after the step
LiveAfter(button) == {t \in timers' : t.button = button}

C32_RepeatLifecycle ==
  [][/\ tick'.kind = "startRepeat" =>
          /\ emitted' = << >>
          /\ \A t \in LiveAfter(tick'.button) : t.kind = "timeout"
     /\ \A b \in DpadButtons :
          /\ Invoked(b) =
               IF tick'.kind \in {"delay", "interval"} /\ tick'.button = b
                 THEN 1 ELSE 0
          /\ Invoked(b) > 0 => LiveTimers(b) # {}
          /\ (\E t \in LiveAfter(b) \ LiveTimers(b) : t.kind = "interval") =>
               /\ tick'.kind = "delay" /\ tick'.button = b
               /\ \E t \in LiveTimers(b) : t.kind = "timeout"
          /\ LiveTimers(b) = {} /\ LiveAfter(b) # {} =>
               tick'.kind = "startRepeat" /\ tick'.button = b
     /\ tick'.kind = "delay" =>
          \E t \in LiveAfter(tick'.button) : t.kind = "interval"
     /\ tick'.kind = "interval" => timers' = timers
     /\ tick'.kind = "clearAll" => timers' = {} /\ repeatTimers' = {}
     /\ tick'.kind = "clearRepeat" =>
          /\ LiveAfter(tick'.button) = {}
          /\ \A b \in DpadButtons \ {tick'.button} : LiveAfter(b) = LiveTimers(b)
          /\ LiveTimers(tick'.button) = {} =>
               timers' = timers /\ repeatTimers' = repeatTimers]_vars

\* clearRepeat on a button with no repeat, while the interval of another
\* button and the delay of a third are running
C32_Witness ==
  /\ tick.kind = "clearRepeat" /\ tick.noted = {}
  /\ LiveTimers(tick.button) = {}
  /\ \E t \in timers : t.kind = "interval"
  /\ \E t \in timers : t.kind = "timeout"

(* C33: a tick in which poll() returned none emits nothing, starts and    *)
(* clears no repeat timer and leaves the remembered button mask as it was; *)
(* so the previousButtons of every frame (the mask remembered when it is   *)
(* produced) are the buttons of the frame produced before it, however many *)
(* ticks without a frame lie between the two.                              *)
C33_NoFrameKeepsPrevious ==
  [][/\ tick'.kind = "noFrame" =>
          /\ emitted' = << >>
          /\ timers' = timers /\ repeatTimers' = repeatTimers
          /\ lastButtons' = lastButtons
     /\ FrameStep =>
          /\ poll(shown', NeutralSticks, lastButtons).state.previousButtons = shown
          /\ lastButtons' = shown']_vars

\* a tick without a frame while a d-pad button of the last frame is held
\* and its repeat is running
C33_Witness ==
  /\ tick.kind = "noFrame"
  /\ emitted = << >>
  /\ \E t \in timers : t.button \in shown /\ t.kind = "interval"
  /\ lastButtons = shown

(* C34: a frame processed under FOREGROUND with the window visible that  *)
(* shows a d-pad button not held leaves no timer (delay or interval) of    *)
(* that button live; the callback of a button runs only from a live timer  *)
(* of it, and a timer of a button becomes live only in a frame that shows  *)
(* the button newly pressed, so no further cursor action of that direction *)
(* is sent until such a frame; the frame leaves the repeats of the d-pad   *)
(* buttons that stay held as they are.                                     *)
C34_ReleaseStopsRepeat ==
  [][/\ ForegroundFrameStep =>
          /\ \A b \in DpadButtons \ shown' : LiveAfter(b) = {}
          /\ \A b \in DpadButtons \cap shown \cap shown' : LiveAfter(b) = LiveTimers(b)
     /\ \A b \in DpadButtons :
          /\ Invoked(b) > 0 => LiveTimers(b) # {}
          /\ LiveTimers(b) = {} /\ LiveAfter(b) # {} =>
               FrameStep /\ PressedNow(b)]_vars

\* a frame that shows one d-pad button released before its delay elapsed
\* while the interval of another, still held, keeps running
C34_Witness ==
  /\ tick.kind = "poll" /\ ~tick.bg /\ tick.vis
  /\ tick.noted # {}
  /\ \A b \in tick.noted : b \notin shown /\ LiveTimers(b) = {}
  /\ \E t \in timers : t.kind = "interval" /\ t.button \in shown

(* C37, as claimed: in every state where the capture mode is FOREGROUND,  *)
(* the window is visible and the most recently processed frame shows a     *)
(* d-pad button held, a repeat (pending delay or running interval) is live *)
(* for that button.                                                        *)
C37_HeldHasRepeat ==
  ~backgroundMode /\ winVisible =>
    \A b \in DpadButtons \cap shown : LiveTimers(b) # {}

(* C37, amended: a repeat (pending delay or running interval) is live for  *)
(* a held d-pad button from the frame, dispatched under FOREGROUND with    *)
(* the window visible, that shows it newly pressed until a frame shows it  *)
(* released or the mode becomes BACKGROUND; a button whose press began, or *)
(* whose repeat was cleared, while the mode was BACKGROUND or the window   *)
(* hidden has no repeat until a frame shows it newly pressed again.        *)
\* in the step taken, a frame was processed and reached dispatchDpad with the
\* mode FOREGROUND and the window visible
DpadDispatched == FrameStep /\ ~backgroundMode' /\ winVisible'

C37_HeldHasRepeatSincePress ==
  [][\A b \in DpadButtons :
       /\ DpadDispatched /\ PressedNow(b) => LiveAfter(b) # {}
       /\ LiveTimers(b) # {} /\ LiveAfter(b) = {} =>
            \/ FrameStep /\ b \notin shown'
            \/ tick'.kind \in {"hide", "blur"}
       /\ LiveTimers(b) = {} /\ LiveAfter(b) # {} =>
            DpadDispatched /\ PressedNow(b)]_vars

\* a frame under FOREGROUND, window visible, with two d-pad buttons held:
\* the interval of the one pressed first and the delay of the other
C37_Witness ==
  /\ tick.kind = "poll" /\ ~tick.bg /\ tick.vis
  /\ ~backgroundMode /\ winVisible
  /\ Cardinality(DpadButtons \cap shown) = 2
  /\ \A b \in DpadButtons \cap shown : LiveTimers(b) # {}
  /\ \E t \in timers : t.kind = "interval"
  /\ \E t \in timers : t.kind = "timeout"

(* C35: a back action (gamepad B, the keyboard hidden) taken in the wiki  *)
(* view while an earlier history entry exists never leaves the wiki view,  *)
(* also when it follows another back action at once; the landing page is   *)
(* shown, and the history cleared, only when there is no earlier entry.    *)
BackTaken ==
  step'.kind = "action" /\ step'.arg = "back" /\ page.wikiActive /\ ~osk.visible

C35_BackStaysWhileHistory ==
  [][BackTaken /\ canGoBack(nav) =>
       page'.wikiActive /\ nav'.history = nav.history]_vars

(* C36: once goBack() has gone from history entry i to entry i-1 and the   *)
(* navigation event of that entry is handled, canGoForward() is true and   *)
(* entry i is still the next entry of the history, the one goForward()     *)
(* navigates to.                                                           *)
WentBack ==
  step.kind = "action" /\ step.arg = "back" /\ page.wikiActive /\ nav.isNavigating

C36_BackKeepsForward ==
  [][WentBack /\ step'.kind = "src-navigated" =>
       /\ canGoForward(nav')
       /\ nav'.currentIndex = nav.currentIndex
       /\ nav'.history = nav.history]_vars

(* C38: whenever a host element carries the highlight marker, the         *)
(* cursor's highlighted element is that same host element, in every state  *)
(* that moves, refresh completions and the delayed callback of an embedded *)
(* click lead to.                                                          *)
C38_MarkedIsHighlighted ==
  \A e \in page.marked :
    /\ ~cursor.currentHighlightedElement.isWebviewElement
    /\ cursor.currentHighlightedElement.element = e

(* C39: after any sequence of startPolling and stopPolling calls at most  *)
(* one polling timer is live, and it is the one pollInterval holds         *)
(* (startPolling while polling creates no second timer); after             *)
(* stopPolling no polling timer and no d-pad repeat timer is live and the  *)
(* remembered button mask is 0.                                            *)
C39_OnePollingTimer ==
  /\ Cardinality(poller.live) <= 1
  /\ poller.live = IF poller.pollInterval = 0 THEN {} ELSE {poller.pollInterval}
  /\ tick.kind = "stopPolling" =>
       /\ poller.live = {}
       /\ timers = {} /\ repeatTimers = {}
       /\ lastButtons = {}

\* stopPolling while polling, with a d-pad button held and its repeat live
C39_Witness ==
  /\ tick.kind = "stopPolling"
  /\ tick.noted # {} /\ tick.noted \subseteq shown
  /\ poller.gamepadInput = "ready"
  /\ poller.live = {} /\ timers = {} /\ lastButtons = {}

(* C40: startPolling returns true and starts a polling timer only when the *)
(* sampler has been initialised; while the sampler's initialisation has    *)
(* failed, every call of startPolling returns false and starts no polling  *)
(* timer.                                                                  *)
C40_FailedInitNeverPolls ==
  [][tick'.kind = "startPolling" =>
       /\ poller'.returned = "true" => poller'.gamepadInput = "ready"
       /\ poller'.live # poller.live => poller'.gamepadInput = "ready"
       /\ poller'.gamepadInput = "uninitialised" =>
            poller'.returned = "false" /\ poller'.live = poller.live]_vars

====
